---- MODULE Spec2Model ----
(***************************************************************************)
(* A model of the dalmatian request gateway: the checkout saga of          *)
(* routes/users/checkout_sessions.rs, the db_pool.run query blocks, the    *)
(* tier refresher retrieve_plans of main.rs, the auth gate rd_login and    *)
(* the routes under /users/{id|~me}/ of routes/users/mod.rs.               *)
(*                                                                         *)
(* Every handler is a futures-0.1 combinator chain driven by one task.     *)
(* A step of the model is one completion (body read, pool checkout,        *)
(* prepare, query, HTTP response) together with the synchronous part of    *)
(* the chain that the following poll runs: the and_then closures, the      *)
(* start of the next operation, and, when a join fails, the drop of the    *)
(* sibling branch.                                                         *)
(***************************************************************************)
EXTENDS Integers, Sequences, FiniteSets, TLC

VARIABLES
    req,                 \* the checkout requests: one future chain each
    sessions,            \* relation subscription_checkout_sessions, row id = index
    idle,                \* connections sitting idle in the bb8 pool
    settings,            \* ServerState.settings: which Options are Some
    subscription_tiers,  \* relation subscription_tiers: id -> stripe_plan
    plans,               \* the retrieve_plans task
    tiers,               \* ServerState.tiers, the shared Vec<TierInfo>
    web,                 \* the request under /users/{id|~me}/ being served
    redirects,           \* relation redirects, row id = index
    logins,              \* relation logins: token -> user_id
    users,               \* relation users, row id = index
    patch,               \* the PATCH request of routes/redirects.rs being served
    lock,                \* the RwLock of ServerState.tiers: which guard is alive
    uri                  \* a request path and where the dispatcher sends it

\* the state of the /users/{id|~me}/ routes
routerVars == <<web, redirects, logins, users, patch, lock, uri>>

vars == <<req, sessions, idle, settings, subscription_tiers, plans, tiers, routerVars>>

(***************************************************************************)
(* Bounds of the model.                                                    *)
(***************************************************************************)
MaxReq == 2        \* checkout requests in one run
PoolSize == 2      \* connections of the pool
MaxRedirects == 2  \* rows of relation redirects in one run
MaxUsers == 3      \* rows of relation users in one run
MaxPathLen == 3    \* pieces of a request path after its leading '/'
MaxSlashes == 3    \* trailing slashes added to a request path

Reqs == 1..MaxReq

NULL == "NULL"     \* SQL NULL, Option::None

Users == {1, 2}                       \* rows of relation users
TierInputs == {0, 1, 7}               \* subscription_tier values of request bodies
TierIds == {0, 1, 2}                  \* ids a row of subscription_tiers may have
ExtIds == {"cs_a", "cs_b"}            \* session ids the provider answers with
Amounts == {500, 900}                 \* plan amounts the provider answers with

\* The contents of subscription_tiers, id -> stripe_plan. Tier 0 is the free
\* tier; tier 7 never exists.
FreeTierTable == [t \in {0, 1} |-> IF t = 0 THEN NULL ELSE "plan_1"]
PlannedTierTable ==
    [t \in {0, 1, 2} |-> IF t = 2 THEN NULL ELSE IF t = 0 THEN "plan_0" ELSE "plan_1"]
TierTables == {FreeTierTable, PlannedTierTable}

\* stripe_secret_key and frontend_host are read from the environment
SettingsValues ==
    { [stripe_secret_key |-> k, frontend_host |-> h] :
        k \in {NULL, "sk_test"}, h \in {NULL, "https://front"} }

(***************************************************************************)
(* crate::Error values a handler can end with, and the response            *)
(***************************************************************************)
Pending == [kind |-> "Pending", status |-> 0, body |-> ""]
Panicked == [kind |-> "Panic", status |-> 0, body |-> ""]
Internal(cause) == [kind |-> "Internal", status |-> 0, body |-> cause]
Custom(status, body) == [kind |-> "Custom", status |-> status, body |-> body]
OkResponse(body) == [kind |-> "Ok", status |-> 200, body |-> body]

NoSuchTier == Custom(400, "No such subscription tier")
ensure_me_anyone(is_me) == [kind |-> "Ok", status |-> 0, body |-> ""]

ensure_me(is_me) ==
    IF is_me THEN [kind |-> "Ok", status |-> 0, body |-> ""]
    ELSE Custom(401, "This endpoint is only available for ~me")

\* ErrorWrapper: how the error of a db_pool.run block is rendered
PoolTimedOut == Internal("Database connection timed out")
DatabaseError == Internal("Database error")

\* Error::Unimplemented, and Error::Custom(Err(_)): a Custom error whose
\* response the builder refused
Unimplemented == [kind |-> "Unimplemented", status |-> 0, body |-> ""]
CustomUnbuilt == [kind |-> "CustomErr", status |-> 0, body |-> "http::Error"]

handle_request_leaking(result) ==
    CASE result.kind = "Ok" -> [status |-> result.status, body |-> result.body]
      [] result.kind = "Custom" -> [status |-> result.status, body |-> result.body]
      [] result.kind = "NotFound" -> [status |-> 404, body |-> "Not Found"]
      [] result.kind = "InvalidMethod" -> [status |-> 405, body |-> "Method Not Allowed"]
      [] result.kind \in {"Internal", "Unimplemented", "CustomErr"} ->
            [status |-> 500, body |-> result.body]
      [] OTHER -> [status |-> 0, body |-> ""]

\* the variants of crate::Error (Custom with a built and an unbuilt response)
ErrorKinds == {"NotFound", "InvalidMethod", "Internal", "Unimplemented",
               "Custom", "CustomErr"}

\* unreachable!(): the task of the request panics and nothing is answered
Unreachable == [status |-> 0, body |-> "unreachable!()"]

UnwrapCustomKeeping(err) == [returned |-> FALSE, err |-> err]

\* the first step of the or_else closure: a built Custom response is
\* returned as it is, an unbuilt one goes on as Internal, any other error
\* goes on unchanged
UnwrapCustom(err) ==
    CASE err.kind = "Custom" -> [returned |-> TRUE, err |-> err]
      [] err.kind = "CustomErr" -> [returned |-> FALSE, err |-> Internal(err.body)]
      [] OTHER -> [returned |-> FALSE, err |-> err]

\* the two matches on the error that is left: status and body
StatusAndBody(err) ==
    CASE err.kind = "NotFound" -> [status |-> 404, body |-> "Not Found"]
      [] err.kind = "InvalidMethod" -> [status |-> 405, body |-> "Method Not Allowed"]
      [] err.kind \in {"Internal", "Unimplemented"} ->
            [status |-> 500, body |-> "Internal Server Error"]
      [] OTHER -> Unreachable

\* the or_else stage of handle_request: the response the client receives
handle_request(result) ==
    CASE result.kind = "Ok" -> [status |-> result.status, body |-> result.body]
      [] result.kind \in ErrorKinds ->
            IF UnwrapCustom(result).returned
            THEN [status |-> result.status, body |-> result.body]
            ELSE StatusAndBody(UnwrapCustom(result).err)
      [] OTHER -> [status |-> 0, body |-> ""]

(***************************************************************************)
(* db_pool.run blocks                                                      *)
(***************************************************************************)
\* the four run blocks of the checkout chain
OpKinds == {"tier", "insert", "email", "update"}

\* Life of one run block: waiting for the pool, holding a connection while
\* prepare or query/execute is in flight, and its outcomes.
Waiting == "acq"
Holding == {"prep", "exec"}
Finished == {"ok", "zero_rows", "timeout", "prepare_err", "exec_err"}
Abandoned == {"cancelled", "dropped"}

NoOps == [k \in OpKinds |-> "idle"]
Zeroes == [k \in OpKinds |-> 0]


tack_on_loses_on_err(succeeded) == IF succeeded THEN 1 ELSE 0

\* tack_on: the connection rides along with the result in both arms, so the
\* run block hands one connection back whether the step succeeded or failed.
tack_on(succeeded) == 1

\* What join does to the other branch when one branch fails (and what an
\* unwinding panic does to the whole chain): the futures are dropped. A block
\* still waiting for the pool just leaves the queue; a block that holds a
\* connection drops it without handing it back to the pool. A statement
\* abandoned in flight is taken not to have run.
Abandon(ops) ==
    [k \in OpKinds |->
        CASE ops[k] = Waiting -> "cancelled"
          [] ops[k] \in Holding -> "dropped"
          [] OTHER -> ops[k]]

(***************************************************************************)
(* POST /users/{id|~me}/checkout_sessions                                  *)
(***************************************************************************)
NewReq ==
    [pc |-> "new", user_id |-> 0, is_me |-> FALSE, subscription_tier |-> 0,
     body |-> "ok", ops |-> NoOps, acquired |-> Zeroes, released |-> Zeroes,
     session_id |-> 0, ext_status |-> "none", stripe_session |-> NULL,
     ext_calls |-> 0, result |-> Pending]

\* the chain resolves: with an error (the rest of the chain is dropped) or
\* with the response
Finish(q, result) ==
    [q EXCEPT !.pc = "done", !.result = result, !.ops = Abandon(q.ops)]

\* the closure given to db_pool.run is called: the block now waits for the pool
StartOp(q, k) == [q EXCEPT !.ops[k] = Waiting]

\* the second argument of the first join: ensure_me, then the two settings
SettingsCheckKeyOnly(is_me, s) ==
    IF ensure_me(is_me).kind # "Ok" THEN ensure_me(is_me)
    ELSE IF s.stripe_secret_key = NULL THEN Internal("Missing Stripe secret key")
    ELSE [kind |-> "Ok", status |-> 0, body |-> ""]

SettingsCheck(is_me, s) ==
    IF ensure_me(is_me).kind # "Ok" THEN ensure_me(is_me)
    ELSE IF s.stripe_secret_key = NULL THEN Internal("Missing Stripe secret key")
    ELSE IF s.frontend_host = NULL THEN Internal("Missing frontend host")
    ELSE [kind |-> "Ok", status |-> 0, body |-> ""]

\* body.concat2() and serde_json::from_slice: a body that cannot be read or
\* parsed is Error::internal; a parsed body starts the tier lookup
BodyRead(q) ==
    IF q.body = "ok" THEN StartOp([q EXCEPT !.pc = "tier"], "tier")
    ELSE Finish(q, Internal(q.body))

\* The first poll of the chain. join polls its first future, then its second:
\* the body and tier lookup, then ensure_me and the settings; the outer join
\* then polls the email lookup, which so starts together with the tier lookup.
FirstPoll(q, ready, s) ==
    LET a == IF ready THEN BodyRead(q) ELSE [q EXCEPT !.pc = "body"]
    IN  IF a.pc = "done" THEN a
        ELSE IF SettingsCheck(q.is_me, s).kind # "Ok"
             THEN Finish(a, SettingsCheck(q.is_me, s))
        ELSE StartOp(a, "email")

\* the second join is complete when the insert chain and the email lookup are
CheckoutJoined(q) == q.ops["insert"] = "ok" /\ q.ops["email"] = "ok"

SendWithoutInsert(q) ==
    IF q.ops["email"] = "ok" /\ q.pc # "ext"
    THEN [q EXCEPT !.pc = "ext", !.ext_calls = @ + 1]
    ELSE q

SendWithoutEmail(q) ==
    IF q.ops["insert"] = "ok"
    THEN [q EXCEPT !.pc = "ext", !.ext_calls = @ + 1]
    ELSE q

\* after the second join: the form body is built and http_client.request sent
SendWhenJoined(q) ==
    IF CheckoutJoined(q)
    THEN [q EXCEPT !.pc = "ext", !.ext_calls = @ + 1]
    ELSE q

\* SELECT stripe_plan FROM subscription_tiers WHERE id=$1, first row if any
TierRow(table, tier_id) ==
    IF tier_id \in DOMAIN table THEN <<table[tier_id]>> ELSE <<>>

AfterTierRowUnchecked(q, row) ==
    IF row # <<>> /\ row[1] = NULL THEN Finish(q, Panicked)
    ELSE StartOp([q EXCEPT !.pc = "insert",
                           !.ops["tier"] = IF row = <<>> THEN "zero_rows" ELSE @],
                 "insert")

\* what follows the tier lookup: no row is the 400; row.get::<_, String>(0)
\* panics on a NULL stripe_plan; otherwise the first join is complete (its
\* second future was Ok at the first poll) and the insert block starts
AfterTierRow(q, row) ==
    IF row = <<>> THEN Finish([q EXCEPT !.ops["tier"] = "zero_rows"], NoSuchTier)
    ELSE IF row[1] = NULL THEN Finish(q, Panicked)
    ELSE StartOp([q EXCEPT !.pc = "insert"], "insert")

\* INSERT INTO subscription_checkout_sessions (user_id, tier_id, timestamp)
InsertSession(rows, user_id, tier_id) ==
    Append(rows, [user_id |-> user_id, tier_id |-> tier_id, stripe_id |-> NULL])

\* ... RETURNING id; the chain waits in the second join for the email
AfterInsert(q, id) ==
    SendWhenJoined([q EXCEPT !.session_id = id, !.pc = "wait_email"])

\* SELECT email FROM users WHERE id=$1
AfterEmailRow(q) ==
    IF q.user_id \in Users THEN SendWhenJoined(q)
    ELSE Finish([q EXCEPT !.ops["email"] = "zero_rows"], Internal("Missing user somehow"))

UpdateSessionsOfUser(rows, stripe_id, id) ==
    [i \in DOMAIN rows |->
        IF rows[i].user_id = rows[id].user_id
        THEN [rows[i] EXCEPT !.stripe_id = stripe_id] ELSE rows[i]]

\* UPDATE subscription_checkout_sessions SET stripe_id=$1 WHERE id=$2
UpdateSession(rows, stripe_id, id) ==
    [i \in DOMAIN rows |-> IF i = id THEN [rows[i] EXCEPT !.stripe_id = stripe_id] ELSE rows[i]]

\* the response: {"stripe_session": session.id}
AfterUpdate(q) == Finish(q, OkResponse(q.stripe_session))

OpFailedRetrying(q, k, outcome) ==
    IF k = "update"
    THEN [q EXCEPT !.ops[k] = outcome, !.pc = "ext", !.ext_calls = @ + 1]
    ELSE Finish([q EXCEPT !.ops[k] = outcome],
                IF outcome = "timeout" THEN PoolTimedOut ELSE DatabaseError)

OpFailedUnavailable(q, k, outcome) ==
    Finish([q EXCEPT !.ops[k] = outcome],
           IF outcome = "timeout" THEN Custom(503, "Service Unavailable")
           ELSE DatabaseError)

\* a run block of the chain ends in an error: Error::internal, nothing retried
OpFailed(q, k, outcome) ==
    Finish([q EXCEPT !.ops[k] = outcome],
           IF outcome = "timeout" THEN PoolTimedOut ELSE DatabaseError)


\* a request arrives at checkout_sessions_path with the (user_id, is_me) that
\* user_path resolved, and its chain is polled for the first time
Start(r) ==
    /\ req[r].pc = "new"
    /\ \A o \in Reqs : o < r => req[o].pc # "new"
    /\ \E u \in Users, me \in BOOLEAN, t \in TierInputs,
          b \in {"ok", "invalid body", "body read error"}, ready \in BOOLEAN :
          req' = [req EXCEPT ![r] =
                    FirstPoll([NewReq EXCEPT !.user_id = u, !.is_me = me,
                                             !.subscription_tier = t, !.body = b],
                              ready, settings)]
    /\ UNCHANGED <<sessions, idle, settings, subscription_tiers, plans, tiers, routerVars>>

\* the rest of the request body arrives
BodyArrives(r) ==
    /\ req[r].pc = "body"
    /\ req' = [req EXCEPT ![r] = BodyRead(req[r])]
    /\ UNCHANGED <<sessions, idle, settings, subscription_tiers, plans, tiers, routerVars>>

\* db_pool.run: the pool hands a connection to the closure, which sends prepare
PoolAcquire(r, k) ==
    /\ req[r].ops[k] = Waiting
    /\ idle > 0
    /\ idle' = idle - 1
    /\ req' = [req EXCEPT ![r].ops[k] = "prep", ![r].acquired[k] = @ + 1]
    /\ UNCHANGED <<sessions, settings, subscription_tiers, plans, tiers, routerVars>>

\* db_pool.run: bb8::RunError::TimedOut, no connection came in time
PoolTimeout(r, k) ==
    /\ req[r].ops[k] = Waiting
    /\ req' = [req EXCEPT ![r] = OpFailed(req[r], k, "timeout")]
    /\ UNCHANGED <<sessions, idle, settings, subscription_tiers, plans, tiers, routerVars>>

\* conn.prepare(..).then(|res| tack_on(res, conn)): on Ok the and_then closure
\* sends the query; on Err the block ends and the connection goes back
PrepareDone(r, k, succeeded) ==
    /\ req[r].ops[k] = "prep"
    /\ IF succeeded
       THEN /\ req' = [req EXCEPT ![r].ops[k] = "exec"]
            /\ UNCHANGED idle
       ELSE /\ req' = [req EXCEPT ![r] =
                        OpFailed([req[r] EXCEPT !.released[k] = @ + tack_on(FALSE)],
                                 k, "prepare_err")]
            /\ idle' = idle + tack_on(FALSE)
    /\ UNCHANGED <<sessions, settings, subscription_tiers, plans, tiers, routerVars>>

\* conn.query / conn.execute .. .then(|res| tack_on(res, conn)): the block
\* ends, the connection goes back, and the chain goes on with the result
QueryDone(r, k, succeeded) ==
    LET q == [req[r] EXCEPT !.released[k] = @ + tack_on(succeeded), !.ops[k] = "ok"]
    IN  /\ req[r].ops[k] = "exec"
        /\ idle' = idle + tack_on(succeeded)
        /\ IF ~succeeded
           THEN /\ req' = [req EXCEPT ![r] = OpFailed(q, k, "exec_err")]
                /\ UNCHANGED sessions
           ELSE CASE k = "tier" ->
                      /\ req' = [req EXCEPT ![r] =
                                  AfterTierRow(q, TierRow(subscription_tiers,
                                                          q.subscription_tier))]
                      /\ UNCHANGED sessions
                  [] k = "insert" ->
                      /\ sessions' = InsertSession(sessions, q.user_id, q.subscription_tier)
                      /\ req' = [req EXCEPT ![r] = AfterInsert(q, Len(sessions) + 1)]
                  [] k = "email" ->
                      /\ req' = [req EXCEPT ![r] = AfterEmailRow(q)]
                      /\ UNCHANGED sessions
                  [] k = "update" ->
                      /\ sessions' = UpdateSession(sessions, q.stripe_session, q.session_id)
                      /\ req' = [req EXCEPT ![r] = AfterUpdate(q)]
        /\ UNCHANGED <<settings, subscription_tiers, plans, tiers, routerVars>>

\* http_client.request(req) resolves: a transport error is Error::internal;
\* otherwise the body of the response is read next, whatever the status
ExtResponded(q, outcome) ==
    IF outcome = "transport error" THEN Finish(q, Internal(outcome))
    ELSE [q EXCEPT !.pc = "ext_body", !.ext_status = outcome]

ExtResponse(r) ==
    /\ req[r].pc = "ext"
    /\ \E outcome \in {"transport error", "2xx", "non2xx"} :
          req' = [req EXCEPT ![r] = ExtResponded(req[r], outcome)]
    /\ UNCHANGED <<sessions, idle, settings, subscription_tiers, plans, tiers, routerVars>>

ExtBodyReadAnyStatus(q, outcome) ==
    IF outcome \in {"response read error", "invalid json"} THEN Finish(q, Internal(outcome))
    ELSE StartOp([q EXCEPT !.pc = "update", !.stripe_session = outcome], "update")

\* res.into_body().concat2() resolves. A non-success status is always an
\* error; a success body is parsed as {id} and the update block starts
ExtBodyRead(q, outcome) ==
    IF outcome = "response read error" THEN Finish(q, Internal(outcome))
    ELSE IF q.ext_status # "2xx" THEN Finish(q, Internal("Received error from stripe"))
    ELSE IF outcome = "invalid json" THEN Finish(q, Internal(outcome))
    ELSE StartOp([q EXCEPT !.pc = "update", !.stripe_session = outcome], "update")

ExtBody(r) ==
    /\ req[r].pc = "ext_body"
    /\ \E outcome \in {"response read error", "invalid json"} \cup ExtIds :
          req' = [req EXCEPT ![r] = ExtBodyRead(req[r], outcome)]
    /\ UNCHANGED <<sessions, idle, settings, subscription_tiers, plans, tiers, routerVars>>

CheckoutStep(r) ==
    \/ Start(r)
    \/ BodyArrives(r)
    \/ ExtResponse(r)
    \/ ExtBody(r)
    \/ \E k \in OpKinds :
        \/ PoolAcquire(r, k)
        \/ PoolTimeout(r, k)
        \/ \E succeeded \in BOOLEAN :
            \/ PrepareDone(r, k, succeeded)
            \/ QueryDone(r, k, succeeded)

CheckoutNext == \E r \in Reqs : CheckoutStep(r)

(***************************************************************************)
(* retrieve_plans, spawned once by main before the server is bound         *)
(***************************************************************************)
\* std::sync::RwLock of ServerState.tiers: no guard alive, the write guard,
\* a read guard
\* ---- The path of a request ----------------------------------------------
\* A path is the sequence of its pieces: a piece is "/" or a maximal run of
\* other characters, so a prefix test on pieces is the prefix test on
\* characters for the prefixes of the routes, which all end in '/'.

Slash == "/"
Words == {"logins", "users", "subscription_tiers", "settings", "nowhere"}

\* no request path is being looked at
NoUri == [path |-> <<>>, routed |-> {}]

starts_with(path, prefix) ==
    /\ Len(path) >= Len(prefix)
    /\ SubSeq(path, 1, Len(prefix)) = prefix

ends_with(path, suffix) ==
    /\ Len(path) >= Len(suffix)
    /\ SubSeq(path, Len(path) - Len(suffix) + 1, Len(path)) = suffix

\* Option<&str>: the rest of the path behind the prefix, or nothing
consume_path(path, prefix) ==
    IF starts_with(path, prefix)
    THEN {SubSeq(path, Len(prefix) + 1, Len(path))}
    ELSE {}

AppendSlashOnly(path) ==
    LET path_with_slash == Append(path, Slash)
    IN  IF starts_with(path_with_slash, <<Slash>>) THEN Tail(path_with_slash)
        ELSE path_with_slash

\* the path the routes are matched against: one '/' appended, one '/' of a
\* closing "//" taken off again, the leading '/' dropped
NormalizedPath(path) ==
    LET path_with_slash == Append(path, Slash)
        trimmed == IF ends_with(path_with_slash, <<Slash, Slash>>)
                   THEN SubSeq(path_with_slash, 1, Len(path_with_slash) - 1)
                   ELSE path_with_slash
    IN  IF starts_with(trimmed, <<Slash>>) THEN Tail(trimmed) ELSE trimmed

\* the first level of the dispatcher: the routine the path goes to and the
\* rest of the path it is called with; no routine and no rest when no prefix
\* matches
TopRoute(path) ==
    CASE consume_path(path, <<"logins", Slash>>) # {} ->
            [handler |-> "routes::logins",
             suffix |-> consume_path(path, <<"logins", Slash>>)]
      [] consume_path(path, <<"users", Slash>>) # {} ->
            [handler |-> "routes::users",
             suffix |-> consume_path(path, <<"users", Slash>>)]
      [] consume_path(path, <<"subscription_tiers", Slash>>) # {} ->
            [handler |-> "routes::subscription_tiers",
             suffix |-> consume_path(path, <<"subscription_tiers", Slash>>)]
      [] consume_path(path, <<"settings", Slash>>) # {} ->
            [handler |-> "routes::settings",
             suffix |-> consume_path(path, <<"settings", Slash>>)]
      [] OTHER -> [handler |-> "Error::NotFound", suffix |-> {}]

RECURSIVE Slashes(_)
Slashes(k) == IF k = 0 THEN <<>> ELSE Append(Slashes(k - 1), Slash)

\* the paths of requests: a leading '/', then up to MaxPathLen pieces, the
\* last of them no '/'
RequestPaths ==
    {<<Slash>> \o rest :
        rest \in {q \in UNION {[1..m -> {Slash} \cup Words] : m \in 1..MaxPathLen} :
                    q[Len(q)] # Slash}}

Unlocked == "unlocked"
\* tiers.write().unwrap() and tiers.read().unwrap(): the guard is taken
RwLockWrite(l) == "write"
RwLockRead(l) == "read"

GuardKept(l) == l

\* the guard is a temporary of a statement or of a closure that returns a
\* value: it is dropped before the closure returns to the poll that ran it
GuardDropped(l) == Unlocked

\* the task as tokio::spawn leaves it: its run block waits for the pool
NewPlans ==
    [pc |-> "enum", op |-> Waiting, acquired |-> 0, released |-> 0,
     fetches |-> <<>>, amounts |-> <<>>]

\* the rows of SELECT id, name, stripe_plan, visit_limit mapped to TierInfo:
\* monthly_price is Some(0) for id 0 and None for every other tier (an
\* Option<u32> is the set of its at most one amount)
TierInfos(table) ==
    [id \in DOMAIN table |->
        [stripe_plan |-> table[id], monthly_price |-> IF id = 0 THEN {0} ELSE {}]]

FetchesEveryTier(infos, s) == [id \in DOMAIN infos |-> "req"]

\* the fetches vector: one plan request per tier that has a stripe_plan, none
\* at all without a secret key
Fetches(infos, s) ==
    IF s.stripe_secret_key = NULL THEN <<>>
    ELSE [id \in {t \in DOMAIN infos : infos[t].stripe_plan # NULL} |-> "req"]

FetchInFlight == {"req", "body"}

\* join_all resolves with () once every fetch has
JoinAll(p) ==
    IF \A t \in DOMAIN p.fetches : p.fetches[t] = "ok" THEN [p EXCEPT !.pc = "done"] ELSE p

\* a fetch resolves with Err: join_all drops the fetches still pending and the
\* task ends in the map_err that logs "failed in retrieve_plans"
FetchFailed(p, t) ==
    [p EXCEPT !.pc = "failed",
              !.fetches = [i \in DOMAIN p.fetches |->
                              IF i = t THEN "err"
                              ELSE IF p.fetches[i] \in FetchInFlight THEN "cancelled"
                              ELSE p.fetches[i]]]

SetPriceOfFirst(list, tier_id, amount) ==
    [id \in DOMAIN list |->
        IF \A o \in DOMAIN list : id <= o
        THEN [list[id] EXCEPT !.monthly_price = {amount}] ELSE list[id]]

\* the Plan a fetch has parsed from the body of its answer: its amount
PlanParsed(amounts, tier_id, amount) ==
    [t \in DOMAIN amounts \cup {tier_id} |->
        IF t = tier_id THEN amount ELSE amounts[t]]

\* the last and_then of a fetch: under the write lock, the first tier of the
\* shared list whose id is tier_id gets the amount
SetPrice(list, tier_id, amount) ==
    [id \in DOMAIN list |->
        IF id = tier_id THEN [list[id] EXCEPT !.monthly_price = {amount}] ELSE list[id]]

PlansFailedStillFetching(p, outcome) ==
    [p EXCEPT !.pc = "failed", !.op = outcome,
              !.fetches = Fetches(TierInfos(subscription_tiers), settings)]

PlansFailed(p, outcome) == [p EXCEPT !.pc = "failed", !.op = outcome]

PlansBlockHeld(p, succeeded) == p

\* .collect().then(|res| tack_on(res, conn)): the run block of retrieve_plans
\* ends and its connection goes back before the and_then that builds fetches
PlansBlockEnd(p, succeeded) ==
    [p EXCEPT !.released = @ + tack_on(succeeded), !.op = "ok"]

PlansAcquire ==
    /\ plans.op = Waiting
    /\ idle > 0
    /\ idle' = idle - 1
    /\ plans' = [plans EXCEPT !.op = "prep", !.acquired = @ + 1]
    /\ UNCHANGED <<req, sessions, settings, subscription_tiers, tiers, routerVars>>

PlansTimeout ==
    /\ plans.op = Waiting
    /\ plans' = PlansFailed(plans, "timeout")
    /\ UNCHANGED <<req, sessions, idle, settings, subscription_tiers, tiers, routerVars>>

PlansPrepare(succeeded) ==
    /\ plans.op = "prep"
    /\ IF succeeded
       THEN /\ plans' = [plans EXCEPT !.op = "exec"]
            /\ UNCHANGED idle
       ELSE /\ plans' = PlansFailed([plans EXCEPT !.released = @ + tack_on(FALSE)],
                                    "prepare_err")
            /\ idle' = idle + tack_on(FALSE)
    /\ UNCHANGED <<req, sessions, settings, subscription_tiers, tiers, routerVars>>

\* the query stream is collected and the block ends; on Ok the and_then builds
\* the fetches, replaces the shared list, and join_all sends the requests
PlansQuery(succeeded) ==
    LET p == PlansBlockEnd(plans, succeeded)
        infos == TierInfos(subscription_tiers)
    IN  /\ plans.op = "exec"
        /\ idle' = idle + tack_on(succeeded)
        /\ IF succeeded
           THEN /\ lock = Unlocked
                /\ tiers' = infos
                /\ lock' = GuardDropped(RwLockWrite(lock))
                /\ plans' = JoinAll([p EXCEPT !.pc = "fetch",
                                              !.fetches = Fetches(infos, settings)])
           ELSE /\ plans' = PlansFailed(p, "exec_err")
                /\ UNCHANGED <<tiers, lock>>
        /\ UNCHANGED <<req, sessions, settings, subscription_tiers,
                       web, redirects, logins, users, patch, uri>>

\* http_client.request(req) of one fetch resolves
FetchResponse(t) ==
    /\ plans.pc = "fetch"
    /\ t \in DOMAIN plans.fetches
    /\ plans.fetches[t] = "req"
    /\ \/ plans' = FetchFailed(plans, t)
       \/ plans' = [plans EXCEPT !.fetches[t] = "body"]
    /\ UNCHANGED <<req, sessions, idle, settings, subscription_tiers, tiers, routerVars>>

\* the body of one fetch is read: an unreadable body, a non-success status and
\* a body that is no Plan are errors; otherwise the amount is written
FetchBody(t) ==
    /\ plans.pc = "fetch"
    /\ t \in DOMAIN plans.fetches
    /\ plans.fetches[t] = "body"
    /\ \/ /\ plans' = FetchFailed(plans, t)
          /\ UNCHANGED tiers
          /\ UNCHANGED lock
       \/ \E amount \in Amounts :
          /\ lock = Unlocked
          /\ tiers' = SetPrice(tiers, t, amount)
          /\ lock' = GuardDropped(RwLockWrite(lock))
          /\ plans' = JoinAll([plans EXCEPT
                                  !.fetches[t] = "ok",
                                  !.amounts = PlanParsed(plans.amounts, t, amount)])
    /\ UNCHANGED <<req, sessions, idle, settings, subscription_tiers,
                   web, redirects, logins, users, patch, uri>>

RefreshNext ==
    \/ PlansAcquire
    \/ PlansTimeout
    \/ \E succeeded \in BOOLEAN :
        \/ PlansPrepare(succeeded)
        \/ PlansQuery(succeeded)
    \/ \E t \in TierIds :
        \/ FetchResponse(t)
        \/ FetchBody(t)

(***************************************************************************)
(* rd_login and the routes under /users/{id|~me}/                          *)
(***************************************************************************)
\* Authorization header values: none, or a scheme and a credential
Tokens == {"uuid_1", "uuid_2", "uuid_9", "not-a-uuid"}
Uuids == {"uuid_1", "uuid_2", "uuid_9"}   \* the credentials uuid::Uuid parses
NoHeader == [scheme |-> "none", token |-> ""]
Headers == {NoHeader} \cup [scheme : {"Bearer", "Basic"}, token : Tokens]

\* rows of relation logins at the start: uuid_9 is in no row
LoginsTable == [t \in {"uuid_1", "uuid_2"} |-> IF t = "uuid_1" THEN 1 ELSE 2]

\* bcrypt::hash and bcrypt::verify: the hash is not the password, and verify
\* accepts exactly the password the hash was made from
hash(password) == <<"bcrypt", password>>
verify(password, passhash) == passhash = hash(password)

\* the tier of a row inserted without one: the column's default
DefaultTier == 0

\* request bodies of POST /users and POST /logins that parse
Emails == {"a@x", "b@x", "c@x"}
Passwords == {"pw1", "pw2"}

\* rows of relation users at the start: ids 1 and 2, on tiers 0 and 2
UsersTable ==
    <<[email |-> "a@x", passhash |-> hash("pw1"), tier |-> 0],
      [email |-> "b@x", passhash |-> hash("pw2"), tier |-> 2]>>

\* the first segment of the path, as handle_request consumes it
Tops == {"logins/", "users/", "subscription_tiers/", "settings/", "redirects/",
         "nowhere/"}

\* the first path segment after users/, and what follows it
Segments == {"~me", "1", "2", "5", "x"}
Paths == {"", "redirects/", "nowhere/"}
Methods == {"GET", "POST", "DELETE"}

\* str::parse::<i32> on the segments above
ParseInt(src) ==
    CASE src = "1" -> {1}
      [] src = "2" -> {2}
      [] src = "5" -> {5}
      [] OTHER -> {}

\* i32::to_string
to_string(n) == <<"0", "1", "2", "3", "4", "5", "6", "7", "8", "9">>[n + 1]

NotFound == [kind |-> "NotFound", status |-> 0, body |-> ""]
InvalidMethod == [kind |-> "InvalidMethod", status |-> 0, body |-> ""]
InvalidSegment == Custom(400, "Invalid user ID segment. Must be an integer or '~me'")
InvalidToken == Custom(400, "Unrecognized authentication token")
LoginRequired == Custom(401, "Login is required for '~me' paths")

\* UserIDOrMe::from_str
from_str(src) ==
    IF src = "~me" THEN [kind |-> "Me", id |-> 0]
    ELSE IF ParseInt(src) = {} THEN [kind |-> "Err", id |-> 0]
    ELSE [kind |-> "ID", id |-> CHOOSE n \in ParseInt(src) : TRUE]

\* the value rd_login matches on: None without the header, Some(Err) when the
\* header is no Bearer credential or the credential is no uuid, else Some(Ok)
AuthorizationValue(header) ==
    IF header.scheme = "none" THEN [kind |-> "None", token |-> "", err |-> Pending]
    ELSE IF header.scheme # "Bearer"
    THEN [kind |-> "Err", token |-> "",
          err |-> Custom(400, "Invalid Authorization header value")]
    ELSE IF header.token \notin Uuids
    THEN [kind |-> "Err", token |-> "", err |-> Internal("invalid uuid")]
    ELSE [kind |-> "Ok", token |-> header.token, err |-> Pending]

NewWeb ==
    [pc |-> "new", top |-> "users/", header |-> NoHeader, segment |-> "~me",
     path |-> "", method |-> "GET", body |-> "ok", email |-> "", password |-> "",
     op |-> "idle", acquired |-> 0, released |-> 0, lookups |-> 0,
     login_user |-> {}, id |-> 0, is_me |-> FALSE, body_read |-> FALSE,
     user_id |-> 0, token |-> "", result |-> Pending]

\* the run blocks of the PATCH handler of routes/redirects.rs: the lookup of
\* rd_login, the SELECT of the owner, the UPDATE
PatchOps == {"login", "owner", "update"}

\* the request of routes/redirects.rs not yet polled
NewPatch ==
    [pc |-> "new", header |-> NoHeader, id |-> 0, body |-> "no changes",
     ops |-> [k \in PatchOps |-> "idle"], login_user |-> {}, result |-> Pending]

WebFinish(w, result) == [w EXCEPT !.pc = "done", !.result = result]

\* db_pool.run of the block named b is polled
WebStartOp(w, b) == [w EXCEPT !.pc = b, !.op = Waiting, !.lookups = @ + 1]

rd_login_strict(header) ==
    LET v == AuthorizationValue(header)
    IN  CASE v.kind = "Ok" -> [kind |-> "Lookup", token |-> v.token, err |-> Pending]
          [] v.kind = "Err" -> [kind |-> "Failed", token |-> "", err |-> v.err]
          [] OTHER -> [kind |-> "Ready", token |-> "", err |-> Pending]

\* rd_login: Either::A, the lookup of the token in logins, for Some(Ok(token));
\* Either::B, the ready future Ok(None), for None and for Some(Err(_))
rd_login(header) ==
    LET v == AuthorizationValue(header)
    IN  CASE v.kind = "Ok" -> [kind |-> "Lookup", token |-> v.token, err |-> Pending]
          [] OTHER -> [kind |-> "Ready", token |-> "", err |-> Pending]

ResolveUserTrusting(id_or_me, login_user) ==
    IF id_or_me.kind = "ID"
    THEN [kind |-> "Ok", id |-> id_or_me.id, is_me |-> login_user # {}, err |-> Pending]
    ELSE IF login_user # {}
    THEN [kind |-> "Ok", id |-> CHOOSE u \in login_user : TRUE, is_me |-> TRUE,
          err |-> Pending]
    ELSE [kind |-> "Err", id |-> 0, is_me |-> FALSE, err |-> LoginRequired]

\* the first and_then of user_path: the target id and is_me from the segment
\* and the Option<UserID> of rd_login (a set with at most one element)
ResolveUser(id_or_me, login_user) ==
    IF id_or_me.kind = "ID"
    THEN [kind |-> "Ok", id |-> id_or_me.id, is_me |-> login_user = {id_or_me.id},
          err |-> Pending]
    ELSE IF login_user # {}
    THEN [kind |-> "Ok", id |-> CHOOSE u \in login_user : TRUE, is_me |-> TRUE,
          err |-> Pending]
    ELSE [kind |-> "Err", id |-> 0, is_me |-> FALSE, err |-> LoginRequired]

\* GET /users/{id|~me}/redirects: ensure_me, then the SELECT block
ListRedirects(w) ==
    LET e == ensure_me(w.is_me)
    IN  IF e.kind # "Ok" THEN WebFinish(w, e) ELSE WebStartOp(w, "select")

CreateRedirectUnguarded(w) == [w EXCEPT !.pc = "body", !.body_read = TRUE]

\* POST /users/{id|~me}/redirects: ensure_me, then the body is read
CreateRedirect(w) ==
    LET e == ensure_me(w.is_me)
    IN  IF e.kind # "Ok" THEN WebFinish(w, e)
        ELSE [w EXCEPT !.pc = "body", !.body_read = TRUE]

\* the second and_then of user_path: the leaf and the method
Dispatch(w) ==
    CASE w.path = "" ->
            IF w.method = "GET" THEN WebFinish(w, OkResponse(to_string(w.id)))
            ELSE WebFinish(w, InvalidMethod)
      [] w.path = "redirects/" ->
            CASE w.method = "GET" -> ListRedirects(w)
              [] w.method = "POST" -> CreateRedirect(w)
              [] OTHER -> WebFinish(w, InvalidMethod)
      [] w.path = "subscription_tier/" ->
            IF w.method = "GET" THEN WebStartOp(w, "tier")
            ELSE WebFinish(w, InvalidMethod)
      [] OTHER -> WebFinish(w, NotFound)

\* rd_login has resolved with login_user: resolve the segment, then dispatch
AfterLogin(w, login_user) ==
    LET r == ResolveUser(from_str(w.segment), login_user)
    IN  IF r.kind = "Err" THEN WebFinish(w, r.err)
        ELSE Dispatch([w EXCEPT !.login_user = login_user, !.id = r.id,
                                !.is_me = r.is_me])

AfterLoginRowLenient(w, row) == AfterLogin(w, row)

\* the row of SELECT user_id FROM logins WHERE token=$1: none is the
\* "Unrecognized authentication token" error, one is Some(user_id)
AfterLoginRow(w, row) ==
    IF row = {} THEN WebFinish(w, InvalidToken) ELSE AfterLogin(w, row)

LoginRowFirst(table, token) ==
    IF DOMAIN table = {} THEN {} ELSE {table[CHOOSE t \in DOMAIN table : TRUE]}

\* SELECT user_id FROM logins WHERE token=$1
LoginRow(table, token) == IF token \in DOMAIN table THEN {table[token]} ELSE {}

\* users(): the segment is parsed, then user_path polls rd_login
user_path(w) ==
    LET l == rd_login(w.header)
    IN  IF from_str(w.segment).kind = "Err" THEN WebFinish(w, InvalidSegment)
        ELSE CASE l.kind = "Lookup" -> WebStartOp(w, "login")
               [] l.kind = "Ready" -> AfterLogin(w, {})
               [] OTHER -> WebFinish(w, l.err)

\* the body of a POST is asked for
ReadBody(w) == [w EXCEPT !.pc = "body", !.body_read = TRUE]

\* routes::logins: POST /logins reads the body, any other method is refused
routes_logins(w) ==
    IF w.path # "" THEN WebFinish(w, NotFound)
    ELSE IF w.method = "POST" THEN ReadBody(w)
    ELSE WebFinish(w, InvalidMethod)

\* routes::users: POST /users reads the body; with a segment, user_path
routes_users(w) ==
    IF w.segment = ""
    THEN IF w.method = "POST" THEN ReadBody(w) ELSE WebFinish(w, InvalidMethod)
    ELSE user_path(w)

\* routes::subscription_tiers: the shared list under the read lock, as JSON
\* (the list is abbreviated by its length)
routes_subscription_tiers(w, list) ==
    IF w.path # "" THEN WebFinish(w, NotFound)
    ELSE IF w.method = "GET"
    THEN WebFinish(w, OkResponse(to_string(Cardinality(DOMAIN list))))
    ELSE WebFinish(w, InvalidMethod)

\* routes::settings
routes_settings(w) ==
    IF w.path # "" THEN WebFinish(w, NotFound)
    ELSE IF w.method = "GET" THEN WebFinish(w, OkResponse("settings"))
    ELSE WebFinish(w, InvalidMethod)

\* handle_request: the route is chosen by the first segment of the path
route(w, list) ==
    CASE w.top = "logins/" -> routes_logins(w)
      [] w.top = "users/" -> routes_users(w)
      [] w.top = "subscription_tiers/" -> routes_subscription_tiers(w, list)
      [] w.top = "settings/" -> routes_settings(w)
      [] OTHER -> WebFinish(w, NotFound)

\* SELECT id, passhash FROM users WHERE email=$1
UserByEmail(table, email) == {i \in DOMAIN table : table[i].email = email}

NoSuchEmail == Custom(400, "No such user with that email address")
IncorrectPassword == Custom(401, "Incorrect password")

\* a request for /users/{segment}/{path} arrives and its future is first
\* polled
Arrive ==
    /\ web.pc = "new"
    /\ \E header \in Headers, segment \in Segments, path \in Paths,
          method \in Methods, body \in {"ok", "invalid body", "body read error"} :
          /\ path = "redirects/" /\ method = "POST" => Len(redirects) < MaxRedirects
          /\ web' = route([NewWeb EXCEPT !.header = header, !.segment = segment,
                                         !.path = path, !.method = method,
                                         !.body = body], tiers)
    /\ UNCHANGED <<req, sessions, idle, settings, subscription_tiers, plans, tiers,
                   redirects, logins, users, patch, lock, uri>>

\* the pool hands a connection to the run block of the request
WebAcquire ==
    /\ web.op = Waiting
    /\ idle > 0
    /\ idle' = idle - 1
    /\ web' = [web EXCEPT !.op = "prep", !.acquired = @ + 1]
    /\ UNCHANGED <<req, sessions, settings, subscription_tiers, plans, tiers,
                   redirects, logins, users, patch, lock, uri>>

WebTimeout ==
    /\ web.op = Waiting
    /\ web' = WebFinish([web EXCEPT !.op = "timeout"], PoolTimedOut)
    /\ UNCHANGED <<req, sessions, idle, settings, subscription_tiers, plans, tiers,
                   redirects, logins, users, patch, lock, uri>>

\* conn.prepare(...).then(|res| tack_on(res, conn))
WebPrepare(succeeded) ==
    /\ web.op = "prep"
    /\ IF succeeded
       THEN /\ web' = [web EXCEPT !.op = "exec"]
            /\ UNCHANGED idle
       ELSE /\ web' = WebFinish([web EXCEPT !.op = "prepare_err",
                                            !.released = @ + tack_on(FALSE)],
                                DatabaseError)
            /\ idle' = idle + tack_on(FALSE)
    /\ UNCHANGED <<req, sessions, settings, subscription_tiers, plans, tiers,
                   redirects, logins, users, patch, lock, uri>>

\* SELECT tier FROM users WHERE id=$1
UserTierRow(table, id) == IF id \in DOMAIN table THEN {table[id].tier} ELSE {}

NoSuchUser == Custom(404, "No such user")

\* serde_json::to_vec of one TierInfo (the fields the model keeps)
to_vec(id, tier) ==
    "{id:" \o to_string(id) \o ",monthly_price:"
        \o (CASE tier.monthly_price = {} -> "null"
              [] tier.monthly_price = {0} -> "0"
              [] tier.monthly_price = {500} -> "500"
              [] OTHER -> "900")
        \o "}"

FindTierOrNotFound(list, user_tier) ==
    IF user_tier \in DOMAIN list THEN OkResponse(to_vec(user_tier, list[user_tier]))
    ELSE NotFound

\* the loop over the shared list under the read lock: the entry whose id is
\* the user's tier as JSON, or the internal error when there is none
FindTier(list, user_tier) ==
    IF user_tier \in DOMAIN list THEN OkResponse(to_vec(user_tier, list[user_tier]))
    ELSE Internal("No such tier found")

\* GET /users/{id|~me}/subscription_tier once the row is in
AfterTierOfUser(w, row, list) ==
    IF row = {} THEN WebFinish(w, NoSuchUser)
    ELSE WebFinish(w, FindTier(list, CHOOSE t \in row : TRUE))

\* the request takes the read lock of the shared list in this poll
ReadsTiers(w) ==
    \/ w.pc = "new" /\ w.top = "subscription_tiers/" /\ w.path = "" /\ w.method = "GET"
    \/ w.pc = "tier" /\ w.op = "ok" /\ UserTierRow(users, w.id) # {}

\* the rows of a run block of the request are in: what the chain does next
\* (the relations as they are after the statement, and the request)
AfterQuery(w) ==
    CASE w.pc = "tier" ->
            [web |-> AfterTierOfUser(w, UserTierRow(users, w.id), tiers),
             redirects |-> redirects, logins |-> logins, users |-> users]
      [] w.pc = "login" ->
            [web |-> AfterLoginRow(w, LoginRow(logins, rd_login(w.header).token)),
             redirects |-> redirects, logins |-> logins, users |-> users]
      [] w.pc = "select" ->
            [web |-> WebFinish(w, OkResponse(to_string(
                        Cardinality({i \in DOMAIN redirects : redirects[i].owner = w.id})))),
             redirects |-> redirects, logins |-> logins, users |-> users]
      [] w.pc = "insert" ->
            [web |-> WebFinish(w, OkResponse(to_string(Len(redirects) + 1))),
             redirects |-> Append(redirects, [owner |-> w.id, destination |-> "old"]),
             logins |-> logins, users |-> users]
      [] w.pc = "signup" ->
            [web |-> WebFinish(w, OkResponse(to_string(Len(users) + 1))),
             redirects |-> redirects, logins |-> logins,
             users |-> Append(users, [email |-> w.email,
                                      passhash |-> hash(w.password),
                                      tier |-> DefaultTier])]
      [] w.pc = "user" ->
            [web |-> IF UserByEmail(users, w.email) = {} THEN WebFinish(w, NoSuchEmail)
                     ELSE [w EXCEPT !.pc = "verify",
                                    !.user_id = CHOOSE i \in UserByEmail(users, w.email) : TRUE],
             redirects |-> redirects, logins |-> logins, users |-> users]
      [] OTHER ->
            [web |-> WebFinish(w, OkResponse(w.token)),
             redirects |-> redirects, users |-> users,
             logins |-> [t \in DOMAIN logins \cup {w.token} |->
                            IF t = w.token THEN w.user_id ELSE logins[t]]]

\* the unique constraint of users.email: an INSERT of a row with an email
\* some row already has fails
EmailTaken(table, email) == UserByEmail(table, email) # {}

\* conn.query/execute(...).then(|res| tack_on(res, conn))
WebQuery(succeeded) ==
    LET ok == succeeded /\ ~(web.pc = "signup" /\ EmailTaken(users, web.email))
        w == [web EXCEPT !.released = @ + tack_on(ok),
                         !.op = IF ok THEN "ok" ELSE "exec_err"]
    IN  /\ web.op = "exec"
        /\ idle' = idle + tack_on(ok)
        /\ IF ~ok
           THEN /\ web' = WebFinish(w, DatabaseError)
                /\ UNCHANGED <<redirects, logins, users>>
           ELSE /\ web' = AfterQuery(w).web
                /\ redirects' = AfterQuery(w).redirects
                /\ logins' = AfterQuery(w).logins
                /\ users' = AfterQuery(w).users
        /\ IF ReadsTiers(w)
           THEN /\ lock = Unlocked
                /\ lock' = GuardDropped(RwLockRead(lock))
           ELSE UNCHANGED lock
        /\ UNCHANGED <<req, sessions, settings, subscription_tiers, plans, tiers, patch, uri>>

\* the body of a POST has been read and parsed: the INSERT of redirects, the
\* password hash of signup on the cpu pool, the user lookup of login
AfterBody(w) ==
    IF w.body # "ok" THEN WebFinish(w, Internal(w.body))
    ELSE CASE w.top = "logins/" -> WebStartOp(w, "user")
           [] w.top = "users/" /\ w.segment = "" -> [w EXCEPT !.pc = "hash"]
           [] OTHER -> WebStartOp(w, "insert")

WebBody ==
    /\ web.pc = "body"
    /\ web' = AfterBody(web)
    /\ UNCHANGED <<req, sessions, idle, settings, subscription_tiers, plans, tiers,
                   redirects, logins, users, patch, lock, uri>>

AfterVerifyUnchecked(w, token) == WebStartOp([w EXCEPT !.token = token], "token")

\* bcrypt::verify has answered: a wrong password is refused, a right one gets
\* a new random token and the INSERT into logins
AfterVerify(w, token) ==
    IF ~verify(w.password, users[w.user_id].passhash) THEN WebFinish(w, IncorrectPassword)
    ELSE WebStartOp([w EXCEPT !.token = token], "token")

\* the closure given to cpupool.spawn_fn has run: bcrypt::hash of signup,
\* bcrypt::verify of login
WebCpu(succeeded) ==
    /\ web.pc \in {"hash", "verify"}
    /\ IF ~succeeded THEN web' = WebFinish(web, Internal("bcrypt error"))
       ELSE IF web.pc = "hash" THEN web' = WebStartOp(web, "signup")
       ELSE \E token \in Uuids \ DOMAIN logins : web' = AfterVerify(web, token)
    /\ UNCHANGED <<req, sessions, idle, settings, subscription_tiers, plans, tiers,
                   redirects, logins, users, patch, lock, uri>>

\* a request for another path arrives: /logins, /users, /subscription_tiers,
\* /settings, with or without a further segment, or a path no route knows
ArriveTop ==
    /\ web.pc = "new"
    /\ \E top \in Tops, header \in {NoHeader, [scheme |-> "Bearer", token |-> "uuid_9"]},
          path \in {"", "nowhere/"}, method \in Methods,
          body \in {"ok", "invalid body"}, email \in Emails, password \in Passwords :
          /\ top = "users/" => path = ""
          /\ top = "users/" /\ method = "POST" => Len(users) < MaxUsers
          /\ top = "logins/" /\ method = "POST" => Uuids \ DOMAIN logins # {}
          /\ web' = route([NewWeb EXCEPT !.top = top, !.header = header,
                                         !.segment = "", !.path = path,
                                         !.method = method, !.body = body,
                                         !.email = IF body = "ok" THEN email ELSE "",
                                         !.password = IF body = "ok" THEN password ELSE ""],
                          tiers)
          /\ IF ReadsTiers([NewWeb EXCEPT !.top = top, !.path = path, !.method = method])
             THEN /\ lock = Unlocked
                  /\ lock' = GuardDropped(RwLockRead(lock))
             ELSE UNCHANGED lock
    /\ UNCHANGED <<req, sessions, idle, settings, subscription_tiers, plans, tiers,
                   redirects, logins, users, patch, uri>>

\* the requests that read the shared list of tiers: GET /subscription_tiers and
\* /users/{id|~me}/subscription_tier
ArriveTier ==
    /\ web.pc = "new"
    /\ \E top \in {"users/", "subscription_tiers/"},
          header \in {NoHeader} \cup [scheme : {"Bearer"}, token : DOMAIN LoginsTable],
          segment \in {"~me", "1", "2", "5"}, method \in {"GET", "POST"} :
          LET w == [NewWeb EXCEPT !.top = top, !.header = header,
                                  !.segment = IF top = "users/" THEN segment ELSE "",
                                  !.path = IF top = "users/" THEN "subscription_tier/"
                                           ELSE "",
                                  !.method = method]
          IN  /\ top = "subscription_tiers/" => header = NoHeader /\ segment = "~me"
              /\ web' = route(w, tiers)
              /\ IF ReadsTiers(w)
                 THEN /\ lock = Unlocked
                      /\ lock' = GuardDropped(RwLockRead(lock))
                 ELSE UNCHANGED lock
    /\ UNCHANGED <<req, sessions, idle, settings, subscription_tiers, plans, tiers,
                   redirects, logins, users, patch, uri>>

\* hyper has written the response of the request; the next one may arrive
Reply ==
    /\ web.pc = "done"
    /\ web' = NewWeb
    /\ UNCHANGED <<req, sessions, idle, settings, subscription_tiers, plans, tiers,
                   redirects, logins, users, patch, lock, uri>>

\* the headers of the response of a finished request: a handler that
\* answers JSON sets content-type, the or_else stage of handle_request builds
\* its responses from a status and a body alone
response_headers(w) ==
    IF /\ w.result.kind = "Ok"
       /\ w.method = "GET"
       /\ w.top \in {"users/", "subscription_tiers/", "settings/"}
    THEN {"content-type"}
    ELSE {}

\* values of crate::Error
Causes == {"Database error", "Database connection timed out", "invalid body",
           "body read error", "bcrypt error", "Missing Stripe secret key"}
Statuses == {400, 401, 403, 404}
ErrorBodies == {"No such subscription tier", "Unrecognized authentication token",
                "Login is required for '~me' paths", "No such user",
                "That's not your redirect", "Incorrect password"}
ErrorValues ==
    {NotFound, InvalidMethod, Unimplemented, CustomUnbuilt}
        \cup {Internal(c) : c \in Causes}
        \cup {Custom(st, b) : st \in Statuses, b \in ErrorBodies}

\* the future of some route resolves with an error
Resolve ==
    /\ web.pc = "new"
    /\ \E top \in Tops, method \in Methods, e \in ErrorValues :
          web' = WebFinish([NewWeb EXCEPT !.top = top, !.method = method], e)
    /\ UNCHANGED <<req, sessions, idle, settings, subscription_tiers, plans, tiers,
                   redirects, logins, users, patch, lock, uri>>

UsersNext ==
    \/ Arrive
    \/ ArriveTop
    \/ Reply
    \/ \E succeeded \in BOOLEAN : WebCpu(succeeded)
    \/ WebAcquire
    \/ WebTimeout
    \/ WebBody
    \/ \E succeeded \in BOOLEAN :
        \/ WebPrepare(succeeded)
        \/ WebQuery(succeeded)

(***************************************************************************)
(* Specifications                                                          *)
(***************************************************************************)
\* the server with the refresher already over: checkout requests only
Init ==
    /\ req = [r \in Reqs |-> NewReq]
    /\ sessions = <<>>
    /\ idle = PoolSize
    /\ settings \in SettingsValues
    /\ subscription_tiers = FreeTierTable
    /\ plans = [NewPlans EXCEPT !.pc = "failed", !.op = "timeout"]
    /\ tiers = <<>>
    /\ web = NewWeb
    /\ redirects = <<>>
    /\ logins = LoginsTable
    /\ users = UsersTable
    /\ patch = NewPatch
    /\ lock = Unlocked
    /\ uri = NoUri

Next == CheckoutNext

Spec == Init /\ [][Next]_vars

\* startup: the refresher runs while one checkout request is served
InitTasks ==
    /\ req = [r \in Reqs |-> NewReq]
    /\ sessions = <<>>
    /\ idle = PoolSize
    /\ settings \in SettingsValues
    /\ subscription_tiers \in TierTables
    /\ plans = NewPlans
    /\ tiers = <<>>
    /\ web = NewWeb
    /\ redirects = <<>>
    /\ logins = LoginsTable
    /\ users = UsersTable
    /\ patch = NewPatch
    /\ lock = Unlocked
    /\ uri = NoUri

NextTasks == RefreshNext \/ CheckoutStep(1)

SpecTasks == InitTasks /\ [][NextTasks]_vars

\* the same two tasks on the tokio runtime: a task that can take a step (an
\* answer, an error or a pool timeout has arrived for it) is polled
SpecTasksFair ==
    /\ InitTasks /\ [][NextTasks]_vars
    /\ WF_vars(RefreshNext)
    /\ WF_vars(CheckoutStep(1))

\* the routes under /users/{id|~me}/, one request after the other
InitUsers ==
    /\ req = [r \in Reqs |-> NewReq]
    /\ sessions = <<>>
    /\ idle = PoolSize
    /\ settings = [stripe_secret_key |-> "sk_test", frontend_host |-> "https://front"]
    /\ subscription_tiers = FreeTierTable
    /\ plans = [NewPlans EXCEPT !.pc = "failed", !.op = "timeout"]
    /\ tiers = <<>>
    /\ web = NewWeb
    /\ redirects = <<>>
    /\ logins = LoginsTable
    /\ users = UsersTable
    /\ patch = NewPatch
    /\ lock = Unlocked
    /\ uri = NoUri

NextUsers == UsersNext

\* the request with path uri.path followed by k slashes is dispatched
RoutePath(k) ==
    /\ uri.path # <<>>
    /\ \A r \in uri.routed : r.slashes # k
    /\ uri' = [uri EXCEPT !.routed = @ \cup
                  {[slashes |-> k,
                    to |-> TopRoute(NormalizedPath(uri.path \o Slashes(k)))]}]
    /\ UNCHANGED <<req, sessions, idle, settings, subscription_tiers, plans, tiers,
                   web, redirects, logins, users, patch, lock>>

InitPaths ==
    /\ req = [r \in Reqs |-> NewReq]
    /\ sessions = <<>>
    /\ idle = PoolSize
    /\ settings = [stripe_secret_key |-> "sk_test", frontend_host |-> "https://front"]
    /\ subscription_tiers = FreeTierTable
    /\ plans = NewPlans
    /\ tiers = <<>>
    /\ web = NewWeb
    /\ redirects = <<>>
    /\ logins = LoginsTable
    /\ users = UsersTable
    /\ patch = NewPatch
    /\ lock = Unlocked
    /\ uri \in {[path |-> p, routed |-> {}] : p \in RequestPaths}

NextPaths == \E k \in 0..MaxSlashes : RoutePath(k)

SpecPaths == InitPaths /\ [][NextPaths]_vars

\* the refresher of the shared list next to the requests that read it
NextTiers ==
    \/ RefreshNext
    \/ ArriveTier
    \/ Reply
    \/ WebAcquire
    \/ WebTimeout
    \/ \E succeeded \in BOOLEAN :
        \/ WebPrepare(succeeded)
        \/ WebQuery(succeeded)

SpecTiers == InitTasks /\ [][NextTiers]_vars

SpecUsers == InitUsers /\ [][NextUsers]_vars

\* the or_else stage of handle_request alone, over every value of crate::Error
NextErrors == Resolve \/ Reply

SpecErrors == InitUsers /\ [][NextErrors]_vars

(***************************************************************************)
(* PATCH of one redirect (routes/redirects.rs, redirect_path)              *)
(***************************************************************************)
\* ids of the path: 7 is the id of no row
RedirectIds == {1, 2, 7}
\* bodies: a RedirectPatchBody with a destination, one without, no JSON
PatchBodies == {"destination", "no changes", "invalid body"}

\* rows of relation redirects at the start
RedirectsTable ==
    <<[owner |-> 1, destination |-> "old"], [owner |-> 2, destination |-> "old"]>>

NoSuchRedirect == Custom(404, "No such redirect")
NotYourRedirect == Custom(403, "That's not your redirect")
RedirectLoginRequired == Custom(401, "Login is required to access redirects")

\* SELECT owner FROM redirects WHERE id=$1
OwnerRow(table, id) == IF id \in DOMAIN table THEN {table[id].owner} ELSE {}

\* UPDATE redirects SET "destination" = $2 WHERE id=$1
UpdateRedirect(table, id, destination) ==
    [i \in DOMAIN table |->
        IF i = id THEN [table[i] EXCEPT !.destination = destination] ELSE table[i]]

CheckOwnerAnyLogin(login_user, owner) ==
    IF login_user = {} THEN RedirectLoginRequired ELSE OkResponse("")

\* the and_then after the join: the owner against the Option<UserID>
CheckOwner(login_user, owner) ==
    IF login_user = {} THEN RedirectLoginRequired
    ELSE IF login_user # {owner} THEN NotYourRedirect
    ELSE OkResponse("")

\* what join does to the branch it drops
PatchAbandon(ops) ==
    [k \in PatchOps |->
        CASE ops[k] = Waiting -> "cancelled"
          [] ops[k] \in Holding -> "dropped"
          [] OTHER -> ops[k]]

PatchFinish(p, result) ==
    [p EXCEPT !.pc = "done", !.result = result, !.ops = PatchAbandon(p.ops)]

BlockError(outcome) == IF outcome = "timeout" THEN PoolTimedOut ELSE DatabaseError

\* the first future of the join, rd_login, as a poll finds it
LoginArm(p) ==
    LET l == rd_login(p.header)
    IN  CASE l.kind = "Ready" -> [kind |-> "Ok", row |-> {}, err |-> Pending]
          [] p.ops["login"] \in {"timeout", "prepare_err", "exec_err"} ->
                [kind |-> "Err", row |-> {}, err |-> BlockError(p.ops["login"])]
          [] p.ops["login"] = "ok" ->
                IF LoginRow(logins, l.token) = {}
                THEN [kind |-> "Err", row |-> {}, err |-> InvalidToken]
                ELSE [kind |-> "Ok", row |-> LoginRow(logins, l.token), err |-> Pending]
          [] OTHER -> [kind |-> "NotReady", row |-> {}, err |-> Pending]

\* the second future of the join, the owner of the redirect
OwnerArm(p) ==
    CASE p.ops["owner"] \in {"timeout", "prepare_err", "exec_err"} ->
            [kind |-> "Err", row |-> {}, err |-> BlockError(p.ops["owner"])]
      [] p.ops["owner"] = "ok" ->
            IF OwnerRow(redirects, p.id) = {}
            THEN [kind |-> "Err", row |-> {}, err |-> NoSuchRedirect]
            ELSE [kind |-> "Ok", row |-> OwnerRow(redirects, p.id), err |-> Pending]
      [] OTHER -> [kind |-> "NotReady", row |-> {}, err |-> Pending]

\* Join::poll: the first future, then the second; the first error resolves the
\* join and drops the other future; with both ready the and_then runs
JoinPoll(p) ==
    LET a == LoginArm(p)
        b == OwnerArm(p)
    IN  CASE a.kind = "Err" -> PatchFinish(p, a.err)
          [] b.kind = "Err" -> PatchFinish(p, b.err)
          [] a.kind = "Ok" /\ b.kind = "Ok" ->
                LET c == CheckOwner(a.row, CHOOSE o \in b.row : TRUE)
                IN  IF c.kind # "Ok" THEN PatchFinish(p, c)
                    ELSE [p EXCEPT !.pc = "body", !.login_user = a.row]
          [] OTHER -> p

\* redirect_path is called for PATCH /redirects/{id} and its future is first
\* polled: both futures of the join start
PatchArrive ==
    /\ patch.pc = "new"
    /\ \E header \in Headers, id \in RedirectIds, body \in PatchBodies :
          patch' = [NewPatch EXCEPT
                       !.pc = "join", !.header = header, !.id = id, !.body = body,
                       !.ops = [k \in PatchOps |->
                                   CASE k = "owner" -> Waiting
                                     [] k = "login" /\ rd_login(header).kind = "Lookup" ->
                                          Waiting
                                     [] OTHER -> "idle"]]
    /\ UNCHANGED <<req, sessions, idle, settings, subscription_tiers, plans, tiers,
                   web, redirects, logins, users, lock, uri>>

\* a run block of the request, once over, ends the request unless it is one
\* of the two futures of the join, which the next poll looks at
PatchBlockOver(p, k, result) == IF k = "update" THEN PatchFinish(p, result) ELSE p

PatchAcquire(k) ==
    /\ patch.ops[k] = Waiting
    /\ idle > 0
    /\ idle' = idle - 1
    /\ patch' = [patch EXCEPT !.ops[k] = "prep"]
    /\ UNCHANGED <<req, sessions, settings, subscription_tiers, plans, tiers,
                   web, redirects, logins, users, lock, uri>>

PatchTimeout(k) ==
    /\ patch.ops[k] = Waiting
    /\ patch' = PatchBlockOver([patch EXCEPT !.ops[k] = "timeout"], k, PoolTimedOut)
    /\ UNCHANGED <<req, sessions, idle, settings, subscription_tiers, plans, tiers,
                   web, redirects, logins, users, lock, uri>>

PatchPrepare(k, succeeded) ==
    /\ patch.ops[k] = "prep"
    /\ IF succeeded
       THEN /\ patch' = [patch EXCEPT !.ops[k] = "exec"]
            /\ UNCHANGED idle
       ELSE /\ patch' = PatchBlockOver([patch EXCEPT !.ops[k] = "prepare_err"], k,
                                       DatabaseError)
            /\ idle' = idle + tack_on(FALSE)
    /\ UNCHANGED <<req, sessions, settings, subscription_tiers, plans, tiers,
                   web, redirects, logins, users, lock, uri>>

\* conn.query/execute(...).then(|res| tack_on(res, conn)); after the UPDATE
\* the empty response is built
PatchQuery(k, succeeded) ==
    /\ patch.ops[k] = "exec"
    /\ idle' = idle + tack_on(succeeded)
    /\ patch' = PatchBlockOver([patch EXCEPT !.ops[k] = IF succeeded THEN "ok"
                                                        ELSE "exec_err"], k,
                               IF succeeded THEN OkResponse("") ELSE DatabaseError)
    /\ redirects' = IF k = "update" /\ succeeded
                    THEN UpdateRedirect(redirects, patch.id, "new")
                    ELSE redirects
    /\ UNCHANGED <<req, sessions, settings, subscription_tiers, plans, tiers,
                   web, logins, users, lock, uri>>

\* the task is polled with a future of the join over
PatchPoll ==
    /\ patch.pc = "join"
    /\ JoinPoll(patch) # patch
    /\ patch' = JoinPoll(patch)
    /\ UNCHANGED <<req, sessions, idle, settings, subscription_tiers, plans, tiers,
                   web, redirects, logins, users, lock, uri>>

\* the body is read and parsed; without changes the UPDATE is skipped
PatchBody ==
    /\ patch.pc = "body"
    /\ patch' = CASE patch.body = "invalid body" -> PatchFinish(patch, Internal("invalid body"))
                  [] patch.body = "no changes" -> PatchFinish(patch, OkResponse(""))
                  [] OTHER -> [patch EXCEPT !.pc = "update", !.ops["update"] = Waiting]
    /\ UNCHANGED <<req, sessions, idle, settings, subscription_tiers, plans, tiers,
                   web, redirects, logins, users, lock, uri>>

PatchReply ==
    /\ patch.pc = "done"
    /\ patch' = NewPatch
    /\ UNCHANGED <<req, sessions, idle, settings, subscription_tiers, plans, tiers,
                   web, redirects, logins, users, lock, uri>>

InitRedirects ==
    /\ req = [r \in Reqs |-> NewReq]
    /\ sessions = <<>>
    /\ idle = PoolSize
    /\ settings = [stripe_secret_key |-> "sk_test", frontend_host |-> "https://front"]
    /\ subscription_tiers = FreeTierTable
    /\ plans = [NewPlans EXCEPT !.pc = "failed", !.op = "timeout"]
    /\ tiers = <<>>
    /\ web = NewWeb
    /\ redirects = RedirectsTable
    /\ logins = LoginsTable
    /\ users = UsersTable
    /\ patch = NewPatch
    /\ lock = Unlocked
    /\ uri = NoUri

NextRedirects ==
    \/ PatchArrive
    \/ \E k \in PatchOps : PatchAcquire(k) \/ PatchTimeout(k)
    \/ \E k \in PatchOps, succeeded \in BOOLEAN :
          PatchPrepare(k, succeeded) \/ PatchQuery(k, succeeded)
    \/ PatchPoll
    \/ PatchBody
    \/ PatchReply

SpecRedirects == InitRedirects /\ [][NextRedirects]_vars

(***************************************************************************)
(* The checkout saga                                                       *)
(***************************************************************************)
Started(r) == req[r].pc # "new"
HasRow(r) == req[r].session_id \in DOMAIN sessions
RowOf(r) == sessions[req[r].session_id]
Response(r) == handle_request(req[r].result)
InternalServerError == [status |-> 500, body |-> "Internal Server Error"]
HttpInFlight(r) == req[r].pc \in {"ext", "ext_body"}
OpFailures == {"timeout", "prepare_err", "exec_err"}

\* C1: whenever a request has sent the session-creation call, the row its own
\* insert returned exists, carries the request's user and tier, and has
\* stripe_id NULL for as long as the call is in flight.
C1_RowPrecedesExternalCall ==
    \A r \in Reqs :
        req[r].ext_calls > 0 =>
            /\ req[r].ops["insert"] = "ok"
            /\ HasRow(r)
            /\ RowOf(r).user_id = req[r].user_id
            /\ RowOf(r).tier_id = req[r].subscription_tier
            /\ HttpInFlight(r) => RowOf(r).stripe_id = NULL

C1_Witness == \E r \in Reqs : req[r].pc = "ext" /\ req[r].ext_calls = 1 /\ HasRow(r)

\* C2: a request that ended with the 200 response has its own row's stripe_id
\* equal to the id the provider returned to it, and the response body is that
\* id; every row with a stripe_id got it from the request that inserted it.
C2_OwnRowGetsOwnExternalId ==
    /\ \A r \in Reqs :
          req[r].result.kind = "Ok" =>
              /\ req[r].stripe_session \in ExtIds
              /\ HasRow(r)
              /\ RowOf(r).stripe_id = req[r].stripe_session
              /\ Response(r) = [status |-> 200, body |-> req[r].stripe_session]
    /\ \A i \in DOMAIN sessions :
          sessions[i].stripe_id # NULL =>
              \E r \in Reqs : /\ req[r].session_id = i
                              /\ req[r].ops["update"] = "ok"
                              /\ req[r].stripe_session = sessions[i].stripe_id

C2_Witness ==
    \E r, o \in Reqs :
        /\ r # o
        /\ req[r].result.kind = "Ok" /\ req[o].result.kind = "Ok"
        /\ req[r].user_id = req[o].user_id
        /\ req[r].stripe_session # req[o].stripe_session

\* C3: a request sends the session-creation call at most once, and when its
\* update block fails after the call the request ends with the internal error
\* and its row keeps stripe_id NULL.
C3_NoRetryOfExternalCall ==
    \A r \in Reqs :
        /\ req[r].ext_calls <= 1
        /\ req[r].ops["update"] \in OpFailures =>
              /\ req[r].ext_calls = 1
              /\ req[r].pc = "done"
              /\ req[r].result.kind = "Internal"
              /\ Response(r) = InternalServerError
              /\ HasRow(r) /\ RowOf(r).stripe_id = NULL

C3_Witness ==
    \E r \in Reqs : req[r].ops["update"] = "exec_err" /\ req[r].ext_calls = 1

C5_MissingTierIs400 ==
    \A r \in Reqs :
        req[r].ops["tier"] = "zero_rows" =>
            /\ req[r].is_me
            /\ req[r].subscription_tier \notin DOMAIN subscription_tiers
            /\ req[r].pc = "done"
            /\ Response(r) = [status |-> 400, body |-> "No such subscription tier"]
            /\ req[r].ops["insert"] = "idle" /\ req[r].session_id = 0
            /\ req[r].ext_calls = 0

C5_Witness ==
    \E r \in Reqs : req[r].ops["tier"] = "zero_rows" /\ req[r].ops["email"] = "dropped"

\* C6: when the tier lookup returns a row whose stripe_plan is NULL, the request
\* is rejected with the same 400 as for a missing tier.
C6_NullPlanIs400 ==
    \A r \in Reqs :
        ( /\ req[r].ops["tier"] = "ok"
          /\ req[r].subscription_tier \in DOMAIN subscription_tiers
          /\ subscription_tiers[req[r].subscription_tier] = NULL ) =>
            /\ req[r].result = NoSuchTier
            /\ req[r].ops["insert"] = "idle"
            /\ req[r].ext_calls = 0

\* C7: a request with is_me false starts no insert, sends no call, and ends
\* with the 401 of ensure_me.
C7_NotMeIsOnlyForMe ==
    \A r \in Reqs :
        (Started(r) /\ ~req[r].is_me) =>
            /\ req[r].ops["insert"] = "idle"
            /\ req[r].ext_calls = 0
            /\ req[r].pc = "done"
            /\ Response(r) = [status |-> 401,
                              body |-> "This endpoint is only available for ~me"]

\* C8: when the session-creation call fails in transport or is answered with a
\* non-success status, the update block never starts, the row keeps stripe_id
\* NULL, and the request ends with the internal error.
ExtCallFailed(r) ==
    \/ req[r].result = Internal("transport error")
    \/ req[r].ext_status = "non2xx"

C8_ExternalFailureLeavesRowNull ==
    \A r \in Reqs :
        ExtCallFailed(r) =>
            /\ req[r].ops["update"] = "idle"
            /\ HasRow(r) /\ RowOf(r).stripe_id = NULL
            /\ req[r].pc \in {"ext_body", "done"}
            /\ req[r].pc = "done" =>
                  req[r].result.kind = "Internal" /\ Response(r) = InternalServerError

C8_Witness ==
    \E r, o \in Reqs :
        /\ req[r].ext_status = "non2xx" /\ req[r].pc = "done"
        /\ req[o].result = Internal("transport error")

(***************************************************************************)
(* The pool                                                                *)
(***************************************************************************)
RECURSIVE Sum(_, _)
Sum(f, S) == IF S = {} THEN 0 ELSE LET x == CHOOSE x \in S : TRUE IN f[x] + Sum(f, S \ {x})

ReqAcquires(r) == Sum(req[r].acquired, OpKinds)
ReqReleases(r) == Sum(req[r].released, OpKinds)
Acquires == Sum([r \in Reqs |-> ReqAcquires(r)], Reqs) + plans.acquired
Releases == Sum([r \in Reqs |-> ReqReleases(r)], Reqs) + plans.released

\* every run block of every task has ended with one of its outcomes
AllBlocksOver ==
    /\ \A r \in Reqs :
          /\ req[r].pc \in {"new", "done"}
          /\ \A k \in OpKinds : req[r].ops[k] \in Finished \cup {"idle"}
    /\ plans.op \in Finished

\* the counters of one run block agree with its state
BlockCounts(state, acquired, released) ==
    /\ state \in {"idle", Waiting, "timeout", "cancelled"} => acquired = 0 /\ released = 0
    /\ state \in Holding => acquired = 1 /\ released = 0
    /\ state \in Finished \ {"timeout"} => acquired = 1 /\ released = 1

\* C9: a run block that has ended with success, a prepare error, an execution
\* error or a zero-row result has acquired one connection and released it
\* once; a block that timed out acquired none; once every block has ended so,
\* acquires equal releases and the pool is whole.
C9_AcquiredIsReleasedOnce ==
    /\ \A r \in Reqs : \A k \in OpKinds :
          BlockCounts(req[r].ops[k], req[r].acquired[k], req[r].released[k])
    /\ BlockCounts(plans.op, plans.acquired, plans.released)
    /\ AllBlocksOver => Acquires = Releases /\ idle = PoolSize

C9_Witness ==
    /\ AllBlocksOver
    /\ plans.op = "prepare_err"
    /\ \E r \in Reqs : /\ req[r].ops["tier"] = "zero_rows"
                       /\ req[r].ops["email"] = "ok"
    /\ Acquires = 3

\* C10: while a checkout request has its session-creation call in flight, and
\* while the refresher has a plan request in flight, that task holds no
\* connection, waits for none, and has given back every one it acquired.
PlansHttpInFlight == \E t \in DOMAIN plans.fetches : plans.fetches[t] \in FetchInFlight

C10_NoConnectionAcrossHttp ==
    /\ \A r \in Reqs :
          HttpInFlight(r) =>
              /\ \A k \in OpKinds : req[r].ops[k] \notin Holding \cup {Waiting}
              /\ ReqAcquires(r) = ReqReleases(r)
    /\ PlansHttpInFlight =>
          /\ plans.op \notin Holding \cup {Waiting}
          /\ plans.acquired = plans.released

C10_Witness ==
    /\ \E r \in Reqs : req[r].pc = "ext"
    /\ \E t \in DOMAIN plans.fetches : plans.fetches[t] = "req"

(***************************************************************************)
(* The tier cache                                                          *)
(***************************************************************************)
\* the tiers for which this cycle sends a plan request
Planned == DOMAIN plans.fetches
\* a tier whose plan request has written its amount to the shared list
Priced(t) == t \in Planned /\ plans.fetches[t] = "ok"
\* a tier of the shared list still waiting for its amount
Unpriced(t) == t \in Planned /\ plans.fetches[t] \in FetchInFlight
EnumerationFailed == plans.pc = "failed" /\ plans.op \in OpFailures

\* C11: a reader of the shared tier list never sees a list in which one tier
\* of the cycle carries its looked-up price while another tier of the same
\* cycle is still without the price its lookup will give it.
C11_ReadersSeeWholeSnapshot ==
    tiers = <<>> \/ ~ \E a, b \in DOMAIN tiers : Priced(a) /\ Unpriced(b)

\* C12: a plan request that fails never keeps the plan request of another
\* tier of the same cycle from running to its own end.
C12_FailedLookupLeavesOthersRunning ==
    \A t, u \in Planned : plans.fetches[t] = "err" => plans.fetches[u] # "cancelled"

\* C13: when the enumeration of the tiers fails (pool timeout, prepare error,
\* query error) the shared tier list is what it was before the cycle, the
\* empty list, and no plan request has been sent.
C13_EnumerationFailureLeavesCache ==
    EnumerationFailed => tiers = <<>> /\ plans.fetches = <<>>

C13_Witness ==
    /\ plans.op = "exec_err"
    /\ plans.pc = "failed"
    /\ plans.acquired = 1
    /\ settings.stripe_secret_key # NULL

\* C14: whenever tier 0 is in the shared tier list its monthly_price is 0.
C14_FreeTierPriceIsZero ==
    0 \in DOMAIN tiers => tiers[0].monthly_price = {0}

\* C15: once the enumeration has succeeded, the shared list holds exactly the
\* enumerated tiers, one plan request exists for each tier with a stripe_plan
\* and none for any other tier, none at all without a secret key, and a tier
\* other than 0 without a stripe_plan has no price.
C15_OneLookupPerPlannedTier ==
    plans.op = "ok" =>
        /\ DOMAIN tiers = DOMAIN subscription_tiers
        /\ Planned = IF settings.stripe_secret_key = NULL THEN {}
                     ELSE {t \in DOMAIN subscription_tiers : subscription_tiers[t] # NULL}
        /\ \A t \in DOMAIN tiers :
              /\ tiers[t].stripe_plan = subscription_tiers[t]
              /\ t # 0 /\ subscription_tiers[t] = NULL => tiers[t].monthly_price = {}

C15_Witness ==
    /\ plans.op = "ok"
    /\ Planned = {0, 1}
    /\ plans.fetches[1] = "ok"
    /\ 2 \in DOMAIN tiers
    /\ tiers[2].monthly_price = {}

(***************************************************************************)
(* The auth gate and the user segment                                      *)
(***************************************************************************)
OnlyForMe == ensure_me(FALSE)
\* the request has got as far as rd_login
GateCalled == web.pc # "new" /\ from_str(web.segment).kind # "Err"
WellFormedToken == AuthorizationValue(web.header).kind = "Ok"
\* the lookup of rd_login is over
PastLogin == web.pc \notin {"new", "login"}
\* the only run block of the request so far, the lookup of rd_login, failed
LoginLookupFailed == web.lookups = 1 /\ web.op \in OpFailures
\* the identity the logins relation gives the request's token
Caller ==
    IF WellFormedToken THEN LoginRow(logins, AuthorizationValue(web.header).token) ELSE {}
\* rd_login has resolved with Ok: anonymous, or the row's user
GateResolved ==
    /\ GateCalled
    /\ PastLogin
    /\ WellFormedToken => ~LoginLookupFailed /\ Caller # {}

\* C16: a request without Authorization header, with one that is no Bearer
\* credential, or with a Bearer credential that is no uuid, goes on as
\* anonymous: it starts no run block, does not end with an error of the gate,
\* and is resolved with no identity.
C16_MalformedHeaderIsAnonymous ==
    GateCalled /\ ~WellFormedToken =>
        /\ web.lookups = 0
        /\ web.pc = "done"
        /\ web.login_user = {}
        /\ web.result.kind # "Internal"
        /\ web.result \notin {InvalidToken, Custom(400, "Invalid Authorization header value")}
        /\ web.segment = "~me" => web.result = LoginRequired
        /\ web.segment # "~me" => ~web.is_me /\ {web.id} = ParseInt(web.segment)

C16_Witness ==
    /\ web.pc = "done"
    /\ web.header = [scheme |-> "Bearer", token |-> "not-a-uuid"]
    /\ web.segment = "1"
    /\ web.path = ""
    /\ web.method = "GET"
    /\ web.result = OkResponse("1")

\* C17: a request with a well-formed bearer token starts the lookup in logins;
\* a failed lookup ends the request with an internal error, a lookup without
\* row ends it with the unrecognized-token error, and a lookup with a row
\* resolves to the user_id of that row.
C17_TokenIsLookedUp ==
    GateCalled /\ WellFormedToken =>
        /\ web.lookups >= 1
        /\ PastLogin /\ LoginLookupFailed =>
              /\ web.result \in {PoolTimedOut, DatabaseError}
              /\ web.login_user = {}
        /\ PastLogin /\ ~LoginLookupFailed =>
              IF Caller = {} THEN web.pc = "done" /\ web.result = InvalidToken
                                  /\ web.login_user = {}
              ELSE web.login_user = Caller

C17_Witness ==
    /\ web.pc = "done"
    /\ web.header = [scheme |-> "Bearer", token |-> "uuid_9"]
    /\ web.op = "ok"
    /\ web.result = InvalidToken

\* C18: the answers for a missing login on a ~me path, for a token that is in
\* no row of logins, and for an endpoint that is only for ~me all have status
\* 401.
C18_AuthErrorsAre401 ==
    web.pc = "done" /\ web.result \in {LoginRequired, InvalidToken, OnlyForMe} =>
        handle_request(web.result).status = 401

\* C19: once rd_login has resolved: ~me without caller ends with the
\* login-required error; ~me with a caller gives the caller's id and is_me;
\* a numeric id gives that id, and is_me exactly when the caller has that id.
C19_SegmentResolution ==
    GateResolved =>
        IF web.segment = "~me"
        THEN IF Caller = {} THEN web.pc = "done" /\ web.result = LoginRequired
             ELSE {web.id} = Caller /\ web.is_me
        ELSE /\ {web.id} = ParseInt(web.segment)
             /\ web.is_me <=> (Caller = ParseInt(web.segment))

C19_Witness ==
    /\ GateResolved
    /\ web.segment = "2"
    /\ Caller = {1}
    /\ web.id = 2
    /\ ~web.is_me

\* C20: POST /users/{n}/redirects by a caller logged in as another user ends
\* with the only-for-~me error; the body is not read and no run block but the
\* lookup of rd_login is started, so no row is inserted.
C20_OthersRedirectsAreOnlyForMe ==
    /\ GateResolved
    /\ web.path = "redirects/"
    /\ web.method = "POST"
    /\ web.segment # "~me"
    /\ Caller # {}
    /\ Caller # ParseInt(web.segment)
    => /\ web.pc = "done"
       /\ web.result = OnlyForMe
       /\ ~web.body_read
       /\ web.lookups = 1

C20_Witness ==
    /\ web.pc = "done"
    /\ web.path = "redirects/"
    /\ web.method = "POST"
    /\ web.segment = "5"
    /\ Caller = {1}
    /\ web.result = OnlyForMe
    /\ Len(redirects) = 1


\* ---------------------------------------------------------------------
\* Routing and the error stage
\* ---------------------------------------------------------------------

\* the answer the client receives for the request
WebResponse == handle_request(web.result)
\* no run block of the request failed (pool timeout, prepare, execution)
NoBlockFailed == web.op \notin OpFailures
\* the caller is anonymous, or carries a well-formed token in no row of logins
AnonymousOrUnrecognized == ~WellFormedToken \/ Caller = {}
\* the path of the finished request is the path of no registered route
Unmatched ==
    /\ web.pc = "done"
    /\ \/ web.top \in {"redirects/", "nowhere/"}
       \/ web.top \in {"logins/", "subscription_tiers/", "settings/"} /\ web.path # ""
       \/ /\ web.top = "users/"
          /\ from_str(web.segment).kind # "Err"
          /\ web.path = "nowhere/"
          /\ AnonymousOrUnrecognized
\* the finished request is for a registered leaf with a method it does not
\* support
UnsupportedMethod ==
    /\ web.pc = "done"
    /\ \/ web.top = "logins/" /\ web.path = "" /\ web.method # "POST"
       \/ web.top = "users/" /\ web.segment = "" /\ web.method # "POST"
       \/ web.top \in {"subscription_tiers/", "settings/"} /\ web.path = ""
            /\ web.method # "GET"
       \/ /\ web.top = "users/"
          /\ from_str(web.segment).kind # "Err"
          /\ \/ web.path = "" /\ web.method # "GET"
             \/ web.path = "redirects/" /\ web.method \notin {"GET", "POST"}

\* C21: a request whose path matches no registered route is answered with
\* 404 "Not Found", whatever its method and Authorization header, also under
\* /users/{id|~me}/ for anonymous callers and callers with an unrecognized
\* token.
C21_UnmatchedPathIsNotFound ==
    Unmatched /\ NoBlockFailed =>
        WebResponse = [status |-> 404, body |-> "Not Found"]

\* C22: a request for a registered leaf with a method the leaf does not
\* support is answered with 405, and writes nothing.
C22_UnsupportedMethodIs405 ==
    UnsupportedMethod /\ NoBlockFailed =>
        /\ WebResponse = [status |-> 405, body |-> "Method Not Allowed"]
        /\ ~web.body_read

\* C23: the error stage answers NotFound with 404 "Not Found", InvalidMethod
\* with 405 "Method Not Allowed", a Custom error with its own status and body,
\* and Internal, Unimplemented and a Custom error whose response was not
\* built with 500 "Internal Server Error", whatever the cause.
C23_ErrorMapping ==
    web.pc = "done" =>
        /\ web.result = NotFound =>
              WebResponse = [status |-> 404, body |-> "Not Found"]
        /\ web.result = InvalidMethod =>
              WebResponse = [status |-> 405, body |-> "Method Not Allowed"]
        /\ web.result.kind = "Custom" =>
              WebResponse = [status |-> web.result.status, body |-> web.result.body]
        /\ web.result.kind \in {"Internal", "Unimplemented", "CustomErr"} =>
              WebResponse = InternalServerError

C23_Witness ==
    /\ web.pc = "done"
    /\ web.result = Internal("Missing Stripe secret key")
    /\ WebResponse = InternalServerError


\* C24: in every handler a pool timeout, a prepare error and an execution
\* error of a run block end the request with the same internal error, answered
\* 500, and the chain stops: no block is left running, no later block starts
\* and no later call is sent.
C24_BlockFailureIsInternal ==
    /\ \A r \in Reqs : \A k \in OpKinds :
          req[r].ops[k] \in OpFailures =>
              /\ req[r].pc = "done"
              /\ req[r].result.kind = "Internal"
              /\ Response(r) = InternalServerError
              /\ \A j \in OpKinds : req[r].ops[j] \notin {Waiting} \cup Holding
              /\ k = "tier" => req[r].ops["insert"] = "idle"
              /\ k \in {"tier", "insert", "email"} =>
                    req[r].ext_calls = 0 /\ req[r].ops["update"] = "idle"
              /\ k = "insert" => ~HasRow(r)
              /\ k = "update" => HasRow(r) /\ RowOf(r).stripe_id = NULL
    /\ web.op \in OpFailures =>
          /\ web.pc = "done"
          /\ web.result.kind = "Internal"
          /\ WebResponse = InternalServerError

C24_Witness ==
    \E r, o \in Reqs :
        /\ req[r].ops["insert"] = "timeout" /\ req[r].pc = "done"
        /\ req[o].ops["update"] = "prepare_err" /\ req[o].ext_calls = 1


\* C25: a POST to /users, /logins or /users/{id|~me}/redirects whose body does
\* not parse is answered 400, and writes no row.
C25_InvalidBodyIs400 ==
    (web.pc = "done" /\ web.body_read /\ web.body = "invalid body") =>
        /\ WebResponse.status = 400
        /\ web.lookups = IF web.top = "users/" /\ web.segment # ""
                            /\ WellFormedToken THEN 1 ELSE 0

\* C26: every response, of a handler or of the error stage, carries the
\* header that allows every origin.
C26_EveryResponseAllowsAllOrigins ==
    web.pc = "done" => "access-control-allow-origin" \in response_headers(web)


\* ---------------------------------------------------------------------
\* Signup, login and the token
\* ---------------------------------------------------------------------

\* the finished request is GET /users/~me
GetMe ==
    /\ web.pc = "done"
    /\ web.top = "users/" /\ web.segment = "~me" /\ web.path = ""
    /\ web.method = "GET"
\* the request carries a Bearer token that is in a row of logins
KnownBearer == web.header.scheme = "Bearer" /\ web.header.token \in DOMAIN logins
\* the finished request is a POST /users, or a POST /logins, answered 200
SignedUp ==
    /\ web.pc = "done" /\ web.top = "users/" /\ web.segment = ""
    /\ web.result.kind = "Ok"
LoggedIn == web.pc = "done" /\ web.top = "logins/" /\ web.result.kind = "Ok"

\* C27: a signup creates the user u with the credentials given, a login with
\* those credentials returns a token t of u, and GET /users/~me with Bearer t
\* returns 200 with the id of u; without the header it is the 401 of ~me; the
\* user a token resolves to never changes.
C27_RoundTrip ==
    /\ [](/\ SignedUp =>
                /\ WebResponse = [status |-> 200, body |-> to_string(Len(users))]
                /\ users[Len(users)].email = web.email
                /\ users[Len(users)].passhash = hash(web.password)
          /\ \A i, j \in DOMAIN users : users[i].email = users[j].email => i = j
          /\ LoggedIn =>
                /\ web.result.body \in DOMAIN logins
                /\ users[logins[web.result.body]].email = web.email
                /\ users[logins[web.result.body]].passhash = hash(web.password)
          /\ GetMe /\ KnownBearer /\ NoBlockFailed =>
                WebResponse = [status |-> 200,
                               body |-> to_string(logins[web.header.token])]
          /\ GetMe /\ web.header = NoHeader =>
                WebResponse = [status |-> 401,
                               body |-> "Login is required for '~me' paths"])
    /\ [][/\ \A t \in DOMAIN logins : t \in DOMAIN logins' /\ logins'[t] = logins[t]
          /\ \A i \in DOMAIN users : i \in DOMAIN users' /\ users'[i] = users[i]]_vars

\* the user signed up as 3 has logged in and asks for ~me with the token
C27_Witness ==
    /\ GetMe
    /\ web.header = [scheme |-> "Bearer", token |-> "uuid_9"]
    /\ "uuid_9" \in DOMAIN logins /\ logins["uuid_9"] = 3
    /\ WebResponse = [status |-> 200, body |-> "3"]

\* C29: a row of logins is inserted only by a login whose email matched a
\* user and whose password that user's hash verifies; the row's user is that
\* user and its token is the token answered; a login refused for an unknown
\* email or an incorrect password inserts nothing.
C29_TokenOnlyOnSuccessfulLogin ==
    [][/\ logins' # logins =>
            /\ web.top = "logins/" /\ web.pc = "token"
            /\ web.user_id \in UserByEmail(users, web.email)
            /\ verify(web.password, users[web.user_id].passhash)
            /\ web.token \notin DOMAIN logins
            /\ DOMAIN logins' = DOMAIN logins \cup {web.token}
            /\ logins'[web.token] = web.user_id
            /\ \A t \in DOMAIN logins : logins'[t] = logins[t]
            /\ web'.pc = "done"
            /\ handle_request(web'.result) = [status |-> 200, body |-> web.token]
       /\ (web.pc # "done" /\ web'.pc = "done" /\ web'.top = "logins/"
             /\ web'.result.kind # "Ok") => logins' = logins
       /\ (web'.pc = "done" /\ web'.result = NoSuchEmail) =>
             UserByEmail(users, web'.email) = {} /\ web'.lookups = 1
       /\ (web'.pc = "done" /\ web'.result = IncorrectPassword) =>
             /\ ~verify(web'.password, users[web'.user_id].passhash)
             /\ web'.lookups = 1
      ]_vars

C29_Witness ==
    /\ LoggedIn
    /\ web.email = "b@x" /\ web.password = "pw2"
    /\ web.result = OkResponse("uuid_9")
    /\ logins["uuid_9"] = 2


\* ---------------------------------------------------------------------
\* The PATCH handler of a redirect
\* ---------------------------------------------------------------------

PatchResponse == handle_request(patch.result)
\* the request is over and rd_login resolved with Ok: anonymous, or a user
PatchCaller == LoginArm(patch).row
PatchLoginOk == patch.pc = "done" /\ LoginArm(patch).kind = "Ok"
\* the request is over and the SELECT of the owner ran
OwnerLookedUp == patch.pc = "done" /\ patch.ops["owner"] = "ok"
UpdateStarted == patch.ops["update"] # "idle"

\* C28: the handler starts its UPDATE only for a caller who is logged in as
\* the owner of the redirect, and a row of redirects changes only by such an
\* UPDATE; a missing redirect is answered 404, an anonymous caller 401, a
\* caller who is another user 403 "That's not your redirect", each without an
\* UPDATE.
C28_OnlyOwnerUpdates ==
    /\ [](/\ UpdateStarted =>
                /\ patch.login_user # {}
                /\ patch.login_user = LoginRow(logins, rd_login(patch.header).token)
                /\ patch.login_user = OwnerRow(redirects, patch.id)
          /\ (OwnerLookedUp /\ LoginArm(patch).kind # "Err"
                /\ OwnerRow(redirects, patch.id) = {}) =>
                /\ PatchResponse = [status |-> 404, body |-> "No such redirect"]
                /\ ~UpdateStarted
          /\ (OwnerLookedUp /\ PatchLoginOk /\ OwnerRow(redirects, patch.id) # {}
                /\ PatchCaller = {}) =>
                /\ PatchResponse.status = 401
                /\ ~UpdateStarted
          /\ (OwnerLookedUp /\ PatchLoginOk /\ OwnerRow(redirects, patch.id) # {}
                /\ PatchCaller # {}
                /\ PatchCaller # OwnerRow(redirects, patch.id)) =>
                /\ PatchResponse = [status |-> 403, body |-> "That's not your redirect"]
                /\ ~UpdateStarted)
    /\ [][redirects' # redirects =>
            /\ patch.ops["update"] = "exec"
            /\ patch.login_user = OwnerRow(redirects, patch.id)
            /\ patch.login_user # {}
            /\ redirects' = UpdateRedirect(redirects, patch.id, "new")]_vars

\* user 2 has changed redirect 2, and user 1 is refused on it
C28_Witness ==
    /\ redirects[2].destination = "new"
    /\ patch.pc = "done" /\ patch.id = 2
    /\ PatchCaller = {1}
    /\ patch.result = NotYourRedirect


\* C30: once every request is over, also one whose join dropped a branch with
\* a block in flight, no connection is missing from the pool.
C30_AbandonedBlocksReturnConnections ==
    ( /\ \A r \in Reqs : req[r].pc \in {"new", "done"}
      /\ web.pc \in {"new", "done"}
      /\ patch.pc \in {"new", "done"} ) => idle = PoolSize


\* ---------------------------------------------------------------------
\* Checkout without configuration
\* ---------------------------------------------------------------------

Unconfigured == settings.stripe_secret_key = NULL \/ settings.frontend_host = NULL

\* C31: with the secret key or the front-end host not configured, a checkout
\* request of the owner ends at its first poll with the internal error,
\* answered 500; it inserts no row and sends no call.
C31_UnconfiguredCheckoutIsInternal ==
    \A r \in Reqs :
        (Started(r) /\ req[r].is_me /\ Unconfigured) =>
            /\ req[r].pc = "done"
            /\ req[r].result.kind = "Internal"
            /\ Response(r) = InternalServerError
            /\ req[r].ops["insert"] = "idle"
            /\ req[r].ext_calls = 0
            /\ ~HasRow(r)
            /\ sessions = <<>>

C31_Witness ==
    \E r \in Reqs :
        /\ req[r].is_me /\ req[r].body = "ok"
        /\ settings.stripe_secret_key # NULL
        /\ req[r].result = Internal("Missing frontend host")
        /\ req[r].ops["tier"] = "cancelled"


\* ---------------------------------------------------------------------
\* The refresh cycle to its end
\* ---------------------------------------------------------------------

CycleOver == plans.pc \in {"done", "failed"}
\* the enumeration succeeded and every plan request of the cycle was answered
\* with a plan
AllLookupsSucceeded ==
    /\ plans.op = "ok"
    /\ \A t \in Planned : plans.fetches[t] = "ok"
\* the price a tier has in the list the enumeration builds
EnumeratedPrice(t) == IF t = 0 THEN {0} ELSE {}

\* C32: the refresh cycle ends; when the enumeration and every plan request
\* of the cycle succeeded it ends with every tier that has a plan priced at
\* the amount answered for that tier; and at any time a tier's price is the
\* amount answered for that very tier, or the price it was enumerated with.
C32_CycleEndsWithPrices ==
    /\ <>CycleOver
    /\ [](AllLookupsSucceeded =>
            /\ plans.pc = "done"
            /\ DOMAIN tiers = DOMAIN subscription_tiers
            /\ \A t \in DOMAIN tiers :
                  (subscription_tiers[t] # NULL /\ settings.stripe_secret_key # NULL) =>
                      /\ t \in DOMAIN plans.amounts
                      /\ tiers[t].monthly_price = {plans.amounts[t]})
    /\ [](\A t \in DOMAIN tiers :
            tiers[t].monthly_price =
                IF t \in DOMAIN plans.amounts THEN {plans.amounts[t]}
                ELSE EnumeratedPrice(t))

C32_Witness ==
    /\ plans.pc = "done"
    /\ DOMAIN plans.amounts = {0, 1}
    /\ plans.amounts[0] # plans.amounts[1]
    /\ tiers[1].monthly_price = {plans.amounts[1]}

\* ---- The lock of the shared list --------------------------------------

\* a request that read the shared list has been answered from it
AnsweredFromTiers ==
    /\ web.pc = "done"
    /\ web.result.kind = "Ok"
    /\ \/ web.top = "subscription_tiers/"
       \/ web.top = "users/" /\ web.path = "subscription_tier/"

TierRowIn ==
    /\ web.pc = "tier" /\ web.op = "exec"
    /\ web'.pc = "done" /\ web'.op = "ok"

\* C36: GET /users/{id|~me}/subscription_tier answers 404 "No such user"
\* when the target user has no row, 500 when the user's tier is the id of no
\* entry of the shared list (the empty list before the first refresh
\* included), and otherwise 200 with the entry whose id is the user's tier.
C36_TierOfUser ==
    [][TierRowIn =>
        LET response == handle_request(web'.result)
        IN  /\ web.id \notin DOMAIN users =>
                  response = [status |-> 404, body |-> "No such user"]
            /\ web.id \in DOMAIN users /\ users[web.id].tier \notin DOMAIN tiers =>
                  response = InternalServerError
            /\ web.id \in DOMAIN users /\ users[web.id].tier \in DOMAIN tiers =>
                  /\ response.status = 200
                  /\ response.body =
                        to_vec(users[web.id].tier, tiers[users[web.id].tier])]_vars

\* user 2 is on tier 2: answered 500 before the list holds tier 2, and with
\* the entry of tier 2 once it does
C36_Witness ==
    /\ web.pc = "done" /\ web.path = "subscription_tier/" /\ web.id = 2
    /\ web.result = OkResponse("{id:2,monthly_price:null}")

C36_WitnessMissing ==
    /\ web.pc = "done" /\ web.path = "subscription_tier/" /\ web.id = 2
    /\ web.op = "ok" /\ web.result.kind = "Internal"
    /\ tiers = <<>>

\* ---- The owner of a new redirect ---------------------------------------

\* the step in which the INSERT of POST /users/{id|~me}/redirects adds a row
RedirectInserted ==
    /\ web.pc = "insert"
    /\ Len(redirects') = Len(redirects) + 1

\* C34: every row of redirects inserted through POST
\* /users/{id|~me}/redirects has as owner the user of the row of logins that
\* the token of that request names.
C34_NewRedirectIsOwnedByCaller ==
    [][RedirectInserted =>
        /\ Caller # {}
        /\ redirects'[Len(redirects')].owner \in Caller
        /\ \A i \in DOMAIN redirects : redirects'[i] = redirects[i]]_vars

\* user 1 creates a redirect through its own id in the path
C34_Witness ==
    /\ web.pc = "done" /\ web.path = "redirects/" /\ web.method = "POST"
    /\ web.segment = "1"
    /\ web.header = [scheme |-> "Bearer", token |-> "uuid_1"]
    /\ web.result.kind = "Ok"
    /\ redirects # <<>>
    /\ redirects[Len(redirects)].owner = 1

\* ---- Trailing slashes --------------------------------------------------

\* where the path with k trailing slashes was sent, if it has been dispatched
RoutedWith(k) == {r.to : r \in {x \in uri.routed : x.slashes = k}}

\* C35 as stated: a path not ending in '/' and the same path followed by one
\* '/' go to the same routine with the same rest, and the same path followed
\* by two or more '/' never does.
C35_TwoSlashesNeverEquivalent ==
    /\ \A a \in RoutedWith(0), b \in RoutedWith(1) : a = b
    /\ \A k \in 2..MaxSlashes : \A a \in RoutedWith(0), b \in RoutedWith(k) : a # b

\* C35: a path not ending in '/' and the same path followed by one '/' go to
\* the same routine with the same rest; the same path followed by two or
\* more '/' goes to the same routine with a different rest when a route's
\* prefix matches the path, and to Error::NotFound like the path itself when
\* none does.
C35_SingleTrailingSlashIrrelevant ==
    /\ \A a \in RoutedWith(0), b \in RoutedWith(1) : a = b
    /\ \A k \in 2..MaxSlashes : \A a \in RoutedWith(0), b \in RoutedWith(k) :
          IF a.handler = "Error::NotFound" THEN a = b
          ELSE a.handler = b.handler /\ a.suffix # b.suffix

\* /users, /users/ and /users// have been dispatched
C35_Witness ==
    /\ uri.path = <<Slash, "users">>
    /\ RoutedWith(0) = {[handler |-> "routes::users", suffix |-> {<<>>}]}
    /\ RoutedWith(1) = RoutedWith(0)
    /\ RoutedWith(2) = {[handler |-> "routes::users", suffix |-> {<<Slash>>}]}

\* ---- The arms that cannot be reached ------------------------------------

\* the future of a route has resolved with an error
RouteFailed == web.pc = "done" /\ web.result.kind \in ErrorKinds

\* C38: whatever error a route resolves with, the error that is left after
\* the step that unwraps Custom, and that selects the status and the body,
\* is no Custom, so neither unreachable!() arm is run.
C38_UnreachableArmsNeverRun ==
    RouteFailed =>
        /\ ~UnwrapCustom(web.result).returned =>
              UnwrapCustom(web.result).err.kind \notin {"Custom", "CustomErr"}
        /\ handle_request(web.result) # Unreachable

\* a Custom whose response could not be built goes on, as Internal
C38_Witness ==
    /\ RouteFailed
    /\ web.result = CustomUnbuilt
    /\ ~UnwrapCustom(web.result).returned
    /\ handle_request(web.result) = InternalServerError

\* ---- Every request is answered ----------------------------------------

\* the chain of checkout request r is over
Over(r) == req[r].pc = "done"

\* the client of checkout request r has received a response
Answered(r) == Over(r) /\ Response(r).status \in 100..599

\* C37: every checkout request that was accepted is answered: its chain
\* comes to an end, and when it is over the client has a response, at
\* whichever step it failed.
C37_EveryRequestIsAnswered ==
    \A r \in Reqs : Over(r) => Answered(r)

====
